---------------------------- MODULE Spec2Model ----------------------------
(***************************************************************************)
(* State-machine model of the Escolinha-Futebol administrative             *)
(* application (src/app.py, src/models/*.py).                              *)
(*                                                                         *)
(* The relational store is the state: one variable per table.  Each HTTP   *)
(* handler is one action (a request runs to its commit).  Money is kept in *)
(* thousandths of a real (mills), so that Decimal.quantize("0.01") is an   *)
(* actual rounding; dates are [year, month, day] records and Python's None *)
(* is NoDate / NULL.                                                       *)
(***************************************************************************)
EXTENDS Integers, Sequences, FiniteSets, Bags, TLC

VARIABLES
    users,       \* table users:      set of [id, username, role]
    turmas,      \* table turmas:     set of [id, nome]
    alunos,      \* table alunos:     set of student rows
    presencas,   \* table presencas:  bag of [data, presente, aluno_id, turma_id]
    pagamentos,  \* table pagamentos: bag of [competencia, pago, data_pagamento, valor, aluno_id]
    hoje,        \* date.today()
    resp,        \* the request last served and what it returned
    inflight     \* requests that have read the store and not yet committed

vars == <<users, turmas, alunos, presencas, pagamentos, hoje, resp, inflight>>

-----------------------------------------------------------------------------
(* Bounds of the model.                                                    *)

MaxAlunos == 2
MaxTurmas == 2
MaxUsers == 3

-----------------------------------------------------------------------------
(* Program constants.                                                      *)

MIN_IDADE == 4
MAX_IDADE == 18

NULL == 0
NoDate == [year |-> 0, month |-> 0, day |-> 0]

ROLE_CHOICES == {"admin", "gestor", "instrutor"}

-----------------------------------------------------------------------------
(* Dates.                                                                  *)

Date(y, m, d) == [year |-> y, month |-> m, day |-> d]

DateLt(a, b) ==
    \/ a.year < b.year
    \/ a.year = b.year /\ a.month < b.month
    \/ a.year = b.year /\ a.month = b.month /\ a.day < b.day

first_day_of_month(value) == [value EXCEPT !.day = 1]

\* A submitted month: NoMonth (field absent or empty), a "YYYY-MM" text given
\* by its two numbers, or other text (Garbage).
NoMonth == [kind |-> "none", year |-> 0, month |-> 0]
Garbage == [kind |-> "text", year |-> 0, month |-> 0]
YearMonth(y, m) == [kind |-> "ym", year |-> y, month |-> m]

parse_month(value, today) ==
    IF value.kind = "none" THEN first_day_of_month(today)
    ELSE IF value.kind = "ym" /\ value.month \in 1..12 /\ value.year \in 1..9999
         THEN Date(value.year, value.month, 1)
         ELSE first_day_of_month(today)

-----------------------------------------------------------------------------
(* Decimal values, in mills.                                               *)

\* Decimal.quantize(Decimal("0.01")) under ROUND_HALF_EVEN.
Quantize(v) ==
    LET q == v \div 10
        r == v % 10
    IN  IF r < 5 THEN q * 10
        ELSE IF r > 5 THEN (q + 1) * 10
        ELSE IF q % 2 = 0 THEN q * 10 ELSE (q + 1) * 10

\* A submitted amount: NoText (field absent), BadText (not a number), or digits
\* with an optional separator: inteiro sep frac, frac written with nfrac digits.
NoText == [kind |-> "none", neg |-> FALSE, inteiro |-> 0, sep |-> "", frac |-> 0, nfrac |-> 0]
BadText == [kind |-> "text", neg |-> FALSE, inteiro |-> 0, sep |-> "", frac |-> 0, nfrac |-> 0]
NumText(neg, inteiro, sep, frac, nfrac) ==
    [kind |-> "num", neg |-> neg, inteiro |-> inteiro, sep |-> sep, frac |-> frac, nfrac |-> nfrac]

Pow10(n) == IF n = 0 THEN 1 ELSE IF n = 1 THEN 10 ELSE IF n = 2 THEN 100 ELSE 1000

\* parse_decimal on a Decimal (a value read from a Numeric column).
parse_decimal(value) == Quantize(value)

\* parse_decimal on form text: "." is dropped, "," becomes the decimal point.
parse_decimal_text(value) ==
    IF value.kind = "none" THEN 0
    ELSE IF value.kind = "text" THEN 0
    ELSE LET abs == IF value.sep = ","
                    THEN value.inteiro * 1000 + value.frac * Pow10(3 - value.nfrac)
                    ELSE (value.inteiro * Pow10(value.nfrac) + value.frac) * 1000
         IN  Quantize(IF value.neg THEN 0 - abs ELSE abs)

-----------------------------------------------------------------------------
(* Calendar.                                                               *)

IsLeap(y) == (y % 4 = 0 /\ y % 100 # 0) \/ y % 400 = 0

\* calendar.monthrange(year, month)[1]
monthrange(y, m) ==
    IF m = 2 THEN (IF IsLeap(y) THEN 29 ELSE 28)
    ELSE IF m \in {4, 6, 9, 11} THEN 30 ELSE 31

IsValidDate(d) ==
    /\ d.year \in 1..9999
    /\ d.month \in 1..12
    /\ d.day \in 1..monthrange(d.year, d.month)

\* parse_date: the text "YYYY-MM-DD" is given by its three numbers; empty
\* text and text that is no calendar date both give None.
parse_date(value) == IF IsValidDate(value) THEN value ELSE NoDate

calcular_idade(data_nascimento, referencia) ==
    referencia.year - data_nascimento.year
      - (IF \/ referencia.month < data_nascimento.month
            \/ /\ referencia.month = data_nascimento.month
               /\ referencia.day < data_nascimento.day
         THEN 1 ELSE 0)

min(a, b) == IF a <= b THEN a ELSE b

\* date.toordinal(): the days from 0001-01-01, that day being 1.
DaysBeforeYear(y) ==
    (y - 1) * 365 + ((y - 1) \div 4) - ((y - 1) \div 100) + ((y - 1) \div 400)

RECURSIVE DaysBeforeMonth(_, _)
DaysBeforeMonth(y, m) ==
    IF m = 1 THEN 0 ELSE DaysBeforeMonth(y, m - 1) + monthrange(y, m - 1)

toordinal(d) == DaysBeforeYear(d.year) + DaysBeforeMonth(d.year, d.month) + d.day

\* (a - b).days
DaysBetween(a, b) == toordinal(a) - toordinal(b)

\* value - relativedelta(months=months): the day is kept when the month has
\* it, else it is the month's last.
MonthsAgo(value, months) ==
    LET total == value.year * 12 + (value.month - 1) - months
        y == total \div 12
        m == (total % 12) + 1
    IN  Date(y, m, min(value.day, monthrange(y, m)))

DIA_VENCIMENTO_PADRAO == 10

\* competencia.replace(day=dia_vencimento), with no cap
calcular_vencimento_NoCap(competencia, dia_vencimento) ==
    [competencia EXCEPT !.day = dia_vencimento]

calcular_vencimento(competencia, dia_vencimento) ==
    LET ultimo_dia == monthrange(competencia.year, competencia.month)
        dia == min(dia_vencimento, ultimo_dia)
    IN  [competencia EXCEPT !.day = dia]

-----------------------------------------------------------------------------
(* Permission gate.                                                        *)

ROLE_PERMISSIONS(role) ==
    CASE role = "admin" ->
           {"dashboard", "alunos", "turmas", "presencas", "pagamentos", "config", "users"}
      [] role = "gestor" -> {"dashboard", "alunos", "turmas", "pagamentos"}
      [] role = "instrutor" -> {"dashboard", "presencas"}
      [] OTHER -> {}

has_permission(user, permission) ==
    IF user.role = "admin" THEN TRUE
    ELSE permission \in ROLE_PERMISSIONS(user.role)

\* load_user: the session's user id names a row of users, or nobody.
is_authenticated(uid) == \E u \in users : u.id = uid
load_user(uid) == CHOOSE u \in users : u.id = uid

\* Mutant: any session passes, whatever its role.
permission_required_AnyRole(uid, permission) ==
    IF ~is_authenticated(uid) THEN "login" ELSE "view"

\* Where the decorated view's request goes: "login", "dashboard" or the "view".
permission_required(uid, permission) ==
    IF ~is_authenticated(uid) THEN "login"
    ELSE IF ~has_permission(load_user(uid), permission) THEN "dashboard"
    ELSE "view"

\* Mutant: the view asks for the 'pagamentos' permission.
login_required_Pagamentos(uid) == permission_required(uid, "pagamentos")

login_required(uid) == IF is_authenticated(uid) THEN "view" ELSE "login"

\* A request answered without reaching the view, or by a redirect that
\* changes nothing.
Answer(uid, route, method, outcome) ==
    [uid |-> uid, route |-> route, method |-> method, outcome |-> outcome]

-----------------------------------------------------------------------------
(* Store helpers.                                                          *)

\* The engine gives a new row a primary key no row of the table holds.
FreshId(table) == CHOOSE i \in 1..(Cardinality(table) + 1) : \A r \in table : r.id # i

BagAdd(B, r) == B (+) SetToBag({r})
BagRemove(B, r) == B (-) SetToBag({r})
BagOf(B, Keep(_)) == [r \in {x \in BagToSet(B) : Keep(x)} |-> B[r]]

\* ORDER BY nome: the names of the model, in alphabetical order.
Nomes == <<"Ana", "Bia", "Caio">>
NomeRank(n) == CHOOSE i \in 1..Len(Nomes) : Nomes[i] = n

\* Every order the query may return the rows of S in: ascending by nome, rows
\* of equal nome in any order.
OrderByNome(S) ==
    {o \in [1..Cardinality(S) -> S] :
        /\ \A i, j \in 1..Cardinality(S) : i # j => o[i] # o[j]
        /\ \A i, j \in 1..Cardinality(S) :
              i < j => NomeRank(o[i].nome) <= NomeRank(o[j].nome)}

-----------------------------------------------------------------------------
(* Payments: models/pagamento.py and the reconciliation routine.           *)

NewPagamento(aluno, competencia) ==
    [competencia |-> competencia, pago |-> FALSE, data_pagamento |-> NoDate,
     valor |-> 0, aluno_id |-> aluno.id]

marcar_pago(p, today) == [p EXCEPT !.pago = TRUE, !.data_pagamento = today]

\* Mutant: marking pending forgets to clear the payment date.
marcar_pendente_KeepsDate(p) == [p EXCEPT !.pago = FALSE]

marcar_pendente(p) == [p EXCEPT !.pago = FALSE, !.data_pagamento = NoDate]

\* Pagamento.query.filter_by(aluno_id=..., competencia=...)
PagamentosDe(pags, aluno_id, competencia) ==
    {p \in BagToSet(pags) : p.aluno_id = aluno_id /\ p.competencia = competencia}

RECURSIVE SumValor(_)
SumValor(regs) ==
    IF regs = <<>> THEN 0 ELSE parse_decimal(Head(regs).valor) + SumValor(Tail(regs))

\* round(x, 1) of x = (pagos / total) * 100, in tenths of a percent.
Percentual(pagos, total) ==
    IF total = 0 THEN 0
    ELSE LET n == pagos * 1000
             q == n \div total
             r2 == 2 * (n % total)
         IN  IF r2 < total THEN q
             ELSE IF r2 > total THEN q + 1
             ELSE IF q % 2 = 0 THEN q ELSE q + 1

\* Mutant: the outstanding total forgets what was collected.
Resumo_NoSubtraction(registros) ==
    LET pagas == SelectSeq(registros, LAMBDA r : r.pago)
        pagos == Len(pagas)
    IN  [pagos |-> pagos, pendentes |-> Len(registros) - pagos,
         percentual |-> Percentual(pagos, Len(registros)),
         valor_previsto |-> SumValor(registros), valor_pago |-> SumValor(pagas),
         valor_pendente |-> SumValor(registros)]

Resumo(registros) ==
    LET pagas == SelectSeq(registros, LAMBDA r : r.pago)
        pagos == Len(pagas)
        pendentes == Len(registros) - pagos
        valor_previsto == SumValor(registros)
        valor_pago == SumValor(pagas)
        valor_pendente == valor_previsto - valor_pago
    IN  [pagos |-> pagos, pendentes |-> pendentes,
         percentual |-> Percentual(pagos, Len(registros)),
         valor_previsto |-> valor_previsto, valor_pago |-> valor_pago,
         valor_pendente |-> valor_pendente]

\* Mutant: the row is never fetched, every pass creates one.
ReconcileAluno_AlwaysCreate(aluno, referencia, acc) ==
    IF aluno.projeto_social THEN acc
    ELSE LET new == [NewPagamento(aluno, referencia) EXCEPT
                        !.valor = parse_decimal(aluno.valor_mensalidade)]
         IN  [pagamentos |-> BagAdd(acc.pagamentos, new),
              registros |-> Append(acc.registros, new)]

\* Mutant: inactive students are passed over.
ReconcileAluno_ActiveOnly(aluno, referencia, acc) ==
    LET found == PagamentosDe(acc.pagamentos, aluno.id, referencia)
    IN  IF aluno.projeto_social \/ aluno.status # "ativo"
        THEN IF found # {}
             THEN [acc EXCEPT !.pagamentos =
                        BagRemove(acc.pagamentos, CHOOSE p \in found : TRUE)]
             ELSE acc
        ELSE LET old == IF found # {} THEN CHOOSE p \in found : TRUE
                        ELSE NewPagamento(aluno, referencia)
                 new == [old EXCEPT !.valor = parse_decimal(aluno.valor_mensalidade)]
                 base == IF found # {} THEN BagRemove(acc.pagamentos, old)
                         ELSE acc.pagamentos
             IN  [pagamentos |-> BagAdd(base, new),
                  registros |-> Append(acc.registros, new)]

\* Mutant: a scholarship student's row is left in place.
ReconcileAluno_NoDelete(aluno, referencia, acc) ==
    LET found == PagamentosDe(acc.pagamentos, aluno.id, referencia)
    IN  IF aluno.projeto_social THEN acc
        ELSE LET old == IF found # {} THEN CHOOSE p \in found : TRUE
                        ELSE NewPagamento(aluno, referencia)
                 new == [old EXCEPT !.valor = parse_decimal(aluno.valor_mensalidade)]
                 base == IF found # {} THEN BagRemove(acc.pagamentos, old)
                         ELSE acc.pagamentos
             IN  [pagamentos |-> BagAdd(base, new),
                  registros |-> Append(acc.registros, new)]

\* Mutant: a scholarship student's rows are deleted for every month.
ReconcileAluno_DeleteAllMonths(aluno, referencia, acc) ==
    LET found == PagamentosDe(acc.pagamentos, aluno.id, referencia)
    IN  IF aluno.projeto_social
        THEN [acc EXCEPT !.pagamentos =
                 BagOf(acc.pagamentos, LAMBDA p : p.aluno_id # aluno.id)]
        ELSE LET old == IF found # {} THEN CHOOSE p \in found : TRUE
                        ELSE NewPagamento(aluno, referencia)
                 new == [old EXCEPT !.valor = parse_decimal(aluno.valor_mensalidade)]
                 base == IF found # {} THEN BagRemove(acc.pagamentos, old)
                         ELSE acc.pagamentos
             IN  [pagamentos |-> BagAdd(base, new),
                  registros |-> Append(acc.registros, new)]

\* Mutant: the value is copied only into a row the pass creates.
ReconcileAluno_KeepValue(aluno, referencia, acc) ==
    LET found == PagamentosDe(acc.pagamentos, aluno.id, referencia)
    IN  IF aluno.projeto_social
        THEN IF found # {}
             THEN [acc EXCEPT !.pagamentos =
                        BagRemove(acc.pagamentos, CHOOSE p \in found : TRUE)]
             ELSE acc
        ELSE IF found # {}
        THEN [acc EXCEPT !.registros = Append(acc.registros, CHOOSE p \in found : TRUE)]
        ELSE LET new == [NewPagamento(aluno, referencia) EXCEPT
                            !.valor = parse_decimal(aluno.valor_mensalidade)]
             IN  [pagamentos |-> BagAdd(acc.pagamentos, new),
                  registros |-> Append(acc.registros, new)]

\* One pass of the loop body for one student: the payments table and the
\* list of registros after it.
ReconcileAluno(aluno, referencia, acc) ==
    LET found == PagamentosDe(acc.pagamentos, aluno.id, referencia)
    IN  IF aluno.projeto_social
        THEN IF found # {}
             THEN [acc EXCEPT !.pagamentos =
                        BagRemove(acc.pagamentos, CHOOSE p \in found : TRUE)]
             ELSE acc
        ELSE LET old == IF found # {} THEN CHOOSE p \in found : TRUE
                        ELSE NewPagamento(aluno, referencia)
                 new == [old EXCEPT !.valor = parse_decimal(aluno.valor_mensalidade)]
                 base == IF found # {} THEN BagRemove(acc.pagamentos, old)
                         ELSE acc.pagamentos
             IN  [pagamentos |-> BagAdd(base, new),
                  registros |-> Append(acc.registros, new)]

RECURSIVE ReconcileLoop(_, _, _)
ReconcileLoop(ordem, referencia, acc) ==
    IF ordem = <<>> THEN acc
    ELSE ReconcileLoop(Tail(ordem), referencia,
                       ReconcileAluno(Head(ordem), referencia, acc))

\* pagamentos_do_mes_referencia over the students in the order `ordem`:
\* the committed payments table, the registros and the resumo.
pagamentos_do_mes_referencia(ordem, referencia) ==
    LET done == ReconcileLoop(ordem, referencia,
                              [pagamentos |-> pagamentos, registros |-> <<>>])
    IN  [pagamentos |-> done.pagamentos,
         registros |-> done.registros,
         resumo |-> Resumo(done.registros)]

-----------------------------------------------------------------------------
(* Students: the forms of /alunos and /alunos/<id>/editar.                 *)

\* A submitted whole number: NoInt (absent or empty), BadInt (not digits) or
\* the digits of n.
NoInt == [kind |-> "none", n |-> 0]
BadInt == [kind |-> "text", n |-> 0]
IntText(n) == [kind |-> "int", n |-> n]

\* TELEFONE_REGEX = ^[0-9+()\s-]{8,} applied with match(): the first eight
\* characters are of the class; what follows them is not looked at.
TelefoneChars == {"0", "1", "2", "3", "4", "5", "6", "7", "8", "9", "+", "(", ")", " ", "-"}
TELEFONE_REGEX_match(telefone) ==
    /\ Len(telefone) >= 8
    /\ \A i \in 1..8 : telefone[i] \in TelefoneChars

\* if projeto_social: valor_mensalidade = Decimal("0.00")
ValorFinal_Keep(projeto_social, valor_mensalidade) == valor_mensalidade

ValorFinal(projeto_social, valor_mensalidade) ==
    IF projeto_social THEN 0 ELSE valor_mensalidade

\* The checks both student forms run before they write, in the code's order:
\* the error of the first that fails, or "ok" with the age and the fee to store.
ValidaAluno(form, today) ==
    LET data_nascimento == parse_date(form.data_nascimento)
        valor_mensalidade == parse_decimal_text(form.valor_mensalidade)
        valor_final == ValorFinal(form.projeto_social, valor_mensalidade)
        result(erro, idade) ==
            [erro |-> erro, idade |-> idade, valor_mensalidade |-> valor_final,
             data_nascimento |-> data_nascimento]
    IN  IF \/ form.nome = "" \/ form.responsavel = "" \/ form.telefone = <<>>
           \/ form.turma_id.kind = "none"
           \/ (form.idade.kind = "none" /\ data_nascimento = NoDate)
        THEN result("obrigatorios", 0)
        ELSE IF ~TELEFONE_REGEX_match(form.telefone) THEN result("telefone", 0)
        ELSE IF valor_mensalidade < 0 THEN result("mensalidade", 0)
        ELSE IF data_nascimento # NoDate
        THEN LET idade_calculada == calcular_idade(data_nascimento, today)
             IN  IF idade_calculada < MIN_IDADE \/ idade_calculada > MAX_IDADE
                 THEN result("idade", 0)
                 ELSE result("ok", idade_calculada)
        ELSE IF form.idade.kind # "int" THEN result("idade", 0)
        ELSE IF form.idade.n < MIN_IDADE \/ form.idade.n > MAX_IDADE
        THEN result("idade", 0)
        ELSE result("ok", form.idade.n)

\* The row the forms write, once ValidaAluno said "ok" and int(turma_id)
\* did not raise.
AlunoRow(id, form, v) ==
    [id |-> id, nome |-> form.nome, idade |-> v.idade,
     responsavel |-> form.responsavel, telefone |-> form.telefone,
     status |-> form.status, data_nascimento |-> v.data_nascimento,
     turma_id |-> form.turma_id.n, valor_mensalidade |-> v.valor_mensalidade,
     projeto_social |-> form.projeto_social]

\* POST /alunos
list_alunos_POST(uid, form) ==
    LET gate == permission_required(uid, "alunos")
        v == ValidaAluno(form, hoje)
    IN  /\ Cardinality(alunos) < MaxAlunos
        /\ IF gate # "view"
           THEN /\ resp' = Answer(uid, "list_alunos", "POST", gate)
                /\ UNCHANGED alunos
           ELSE IF turmas = {} \/ v.erro # "ok" \/ form.turma_id.kind # "int"
           THEN /\ resp' = Answer(uid, "list_alunos", "POST", "error")
                /\ UNCHANGED alunos
           ELSE /\ alunos' = alunos \cup {AlunoRow(FreshId(alunos), form, v)}
                /\ resp' = Answer(uid, "list_alunos", "POST", "success")
        /\ UNCHANGED <<users, turmas, presencas, pagamentos, hoje, inflight>>

\* POST /alunos/<aluno_id>/editar
edit_aluno_POST(uid, aluno_id, form) ==
    LET gate == permission_required(uid, "alunos")
        v == ValidaAluno(form, hoje)
        found == {a \in alunos : a.id = aluno_id}
    IN  /\ IF gate # "view"
           THEN /\ resp' = Answer(uid, "edit_aluno", "POST", gate)
                /\ UNCHANGED alunos
           ELSE IF found = {}
           THEN /\ resp' = Answer(uid, "edit_aluno", "POST", "404")
                /\ UNCHANGED alunos
           ELSE IF v.erro # "ok" \/ form.turma_id.kind # "int"
           THEN /\ resp' = Answer(uid, "edit_aluno", "POST", "error")
                /\ UNCHANGED alunos
           ELSE /\ alunos' = (alunos \ found) \cup {AlunoRow(aluno_id, form, v)}
                /\ resp' = Answer(uid, "edit_aluno", "POST", "success")
        /\ UNCHANGED <<users, turmas, presencas, pagamentos, hoje, inflight>>

\* POST /alunos/<aluno_id>/excluir: the student's presencas and pagamentos
\* go with it (cascade="all, delete-orphan").
delete_aluno(uid, aluno_id) ==
    LET gate == permission_required(uid, "alunos")
        found == {a \in alunos : a.id = aluno_id}
    IN  /\ IF gate # "view"
           THEN /\ resp' = Answer(uid, "delete_aluno", "POST", gate)
                /\ UNCHANGED <<alunos, presencas, pagamentos>>
           ELSE IF found = {}
           THEN /\ resp' = Answer(uid, "delete_aluno", "POST", "404")
                /\ UNCHANGED <<alunos, presencas, pagamentos>>
           ELSE /\ alunos' = alunos \ found
                /\ presencas' = BagOf(presencas, LAMBDA r : r.aluno_id # aluno_id)
                /\ pagamentos' = BagOf(pagamentos, LAMBDA r : r.aluno_id # aluno_id)
                /\ resp' = Answer(uid, "delete_aluno", "POST", "success")
        /\ UNCHANGED <<users, turmas, hoje, inflight>>

-----------------------------------------------------------------------------
(* Classes.                                                                *)

\* POST /turmas
list_turmas_POST(uid, form) ==
    LET gate == permission_required(uid, "turmas")
    IN  /\ Cardinality(turmas) < MaxTurmas
        /\ IF gate # "view"
           THEN /\ resp' = Answer(uid, "list_turmas", "POST", gate)
                /\ UNCHANGED turmas
           ELSE IF \/ form.nome = "" \/ form.categoria = ""
                   \/ form.dias_horario = "" \/ form.local_treino = ""
           THEN /\ resp' = Answer(uid, "list_turmas", "POST", "error")
                /\ UNCHANGED turmas
           ELSE /\ turmas' = turmas \cup
                      {[id |-> FreshId(turmas), nome |-> form.nome,
                        categoria |-> form.categoria,
                        dias_horario |-> form.dias_horario,
                        local_treino |-> form.local_treino]}
                /\ resp' = Answer(uid, "list_turmas", "POST", "success")
        /\ UNCHANGED <<users, alunos, presencas, pagamentos, hoje, inflight>>

\* for aluno in turma.alunos: aluno.turma_id = None
SetTurmaNone_All(rows, turma_id) ==
    {[a EXCEPT !.turma_id = NULL] : a \in rows}

SetTurmaNone(rows, turma_id) ==
    {IF a.turma_id = turma_id THEN [a EXCEPT !.turma_id = NULL] ELSE a : a \in rows}

\* POST /turmas/<turma_id>/excluir: the students of the class stay, with no
\* class; nothing else is touched by the handler.
delete_turma(uid, turma_id) ==
    LET gate == permission_required(uid, "turmas")
        found == {t \in turmas : t.id = turma_id}
    IN  /\ IF gate # "view"
           THEN /\ resp' = Answer(uid, "delete_turma", "POST", gate)
                /\ UNCHANGED <<turmas, alunos>>
           ELSE IF found = {}
           THEN /\ resp' = Answer(uid, "delete_turma", "POST", "404")
                /\ UNCHANGED <<turmas, alunos>>
           ELSE /\ alunos' = SetTurmaNone(alunos, turma_id)
                /\ turmas' = turmas \ found
                /\ resp' = [uid |-> uid, route |-> "delete_turma", method |-> "POST",
                            outcome |-> "success", turma_id |-> turma_id]
        /\ UNCHANGED <<users, presencas, pagamentos, hoje, inflight>>

\* POST /turmas/<turma_id>/editar: the four attributes of the class are
\* replaced; its id and its students are not touched.
edit_turma_POST(uid, turma_id, form) ==
    LET gate == permission_required(uid, "turmas")
        found == {t \in turmas : t.id = turma_id}
    IN  /\ IF gate # "view"
           THEN /\ resp' = Answer(uid, "edit_turma", "POST", gate)
                /\ UNCHANGED turmas
           ELSE IF found = {}
           THEN /\ resp' = Answer(uid, "edit_turma", "POST", "404")
                /\ UNCHANGED turmas
           ELSE IF \/ form.nome = "" \/ form.categoria = ""
                   \/ form.dias_horario = "" \/ form.local_treino = ""
           THEN /\ resp' = Answer(uid, "edit_turma", "POST", "error")
                /\ UNCHANGED turmas
           ELSE /\ turmas' = (turmas \ found) \cup
                      {[id |-> turma_id, nome |-> form.nome,
                        categoria |-> form.categoria,
                        dias_horario |-> form.dias_horario,
                        local_treino |-> form.local_treino]}
                /\ resp' = Answer(uid, "edit_turma", "POST", "success")
        /\ UNCHANGED <<users, alunos, presencas, pagamentos, hoje, inflight>>

-----------------------------------------------------------------------------
(* Payment routes.                                                         *)

\* A record of what a reconciliation run found in the store it started from
\* (kept for the properties below; the program keeps no such record): whether
\* the request before it was a run for the same month, the students it had to
\* create a row for, those whose row held another value than their fee, and the
\* scholarship students whose row it had to delete.
RunLog(referencia) ==
    LET has(a) == PagamentosDe(pagamentos, a.id, referencia) # {}
        row(a) == CHOOSE p \in PagamentosDe(pagamentos, a.id, referencia) : TRUE
    IN  [again |-> (resp.outcome = "view" /\ resp.referencia = referencia),
         created |-> {a.id : a \in {x \in alunos : ~x.projeto_social /\ ~has(x)}},
         revalued |-> {a.id : a \in {x \in alunos :
                          /\ ~x.projeto_social /\ has(x)
                          /\ row(x).valor # parse_decimal(x.valor_mensalidade)}},
         deleted |-> {a.id : a \in {x \in alunos : x.projeto_social /\ has(x)}}]

\* What a view that ran the reconciliation returns.
Reconciled(uid, route, referencia, r) ==
    [uid |-> uid, route |-> route, method |-> "GET", outcome |-> "view",
     referencia |-> referencia, registros |-> r.registros, resumo |-> r.resumo,
     log |-> RunLog(referencia)]

\* GET /pagamentos?competencia=...
pagamentos_GET(uid, competencia_raw) ==
    LET gate == permission_required(uid, "pagamentos")
        competencia == parse_month(competencia_raw, hoje)
    IN  /\ IF gate # "view"
           THEN /\ resp' = Answer(uid, "pagamentos", "GET", gate)
                /\ UNCHANGED pagamentos
           ELSE \E ordem \in OrderByNome(alunos) :
                   LET r == pagamentos_do_mes_referencia(ordem, competencia)
                   IN  /\ pagamentos' = r.pagamentos
                       /\ resp' = Reconciled(uid, "pagamentos", competencia, r)
        /\ UNCHANGED <<users, turmas, alunos, presencas, hoje, inflight>>

\* POST /pagamentos: mark one student's month paid or pending.
pagamentos_POST(uid, competencia_raw, aluno_id, status) ==
    LET gate == permission_required(uid, "pagamentos")
        competencia == parse_month(competencia_raw, hoje)
        found == {a \in alunos : a.id = aluno_id}
    IN  /\ IF gate # "view"
           THEN /\ resp' = Answer(uid, "pagamentos", "POST", gate)
                /\ UNCHANGED pagamentos
           ELSE IF found = {}
           THEN /\ resp' = Answer(uid, "pagamentos", "POST", "404")
                /\ UNCHANGED pagamentos
           ELSE LET aluno == CHOOSE a \in found : TRUE
                    rows == PagamentosDe(pagamentos, aluno.id, competencia)
                    old == IF rows # {} THEN CHOOSE p \in rows : TRUE
                           ELSE NewPagamento(aluno, competencia)
                    base == IF rows # {} THEN BagRemove(pagamentos, old)
                            ELSE pagamentos
                    valued == [old EXCEPT
                                 !.valor = parse_decimal(aluno.valor_mensalidade)]
                    new == IF status = "pago" THEN marcar_pago(valued, hoje)
                           ELSE marcar_pendente(valued)
                IN  /\ pagamentos' = BagAdd(base, new)
                    /\ resp' = [uid |-> uid, route |-> "pagamentos", method |-> "POST",
                                outcome |-> "success", referencia |-> competencia,
                                aluno_id |-> aluno_id, status |-> status]
        /\ UNCHANGED <<users, turmas, alunos, presencas, hoje, inflight>>

\* list.sort(key=...) and ORDER BY on pairs of a key and an item: ascending by
\* key, items of equal key in the order they had.
RECURSIVE insort(_, _)
insort(pairs, x) ==
    IF pairs = <<>> THEN <<x>>
    ELSE IF Head(pairs).key <= x.key THEN <<Head(pairs)>> \o insort(Tail(pairs), x)
    ELSE <<x>> \o pairs

RECURSIVE sorted(_)
sorted(pairs) ==
    IF pairs = <<>> THEN <<>>
    ELSE insort(sorted(SubSeq(pairs, 1, Len(pairs) - 1)), pairs[Len(pairs)])

Items(pairs) == [i \in 1..Len(pairs) |-> pairs[i].item]

RECURSIVE SeqOfSet(_)
SeqOfSet(S) ==
    IF S = {} THEN <<>>
    ELSE LET x == CHOOSE y \in S : TRUE IN <<x>> \o SeqOfSet(S \ {x})

\* The unpaid rows of `pags` as the engine may scan them before it orders
\* them: student after student in the order `ordem`.
RECURSIVE PendentesDe(_, _)
PendentesDe(pags, ordem) ==
    IF ordem = <<>> THEN <<>>
    ELSE SeqOfSet({p \in BagToSet(pags) : p.aluno_id = Head(ordem).id /\ ~p.pago})
           \o PendentesDe(pags, Tail(ordem))

\* Pagamento.query.filter_by(pago=False).order_by(Pagamento.competencia.asc())
Pendencias(pags, ordem) ==
    LET scan == PendentesDe(pags, ordem)
    IN  Items(sorted([i \in 1..Len(scan) |->
                        [key |-> toordinal(scan[i].competencia), item |-> scan[i]]]))

\* The dictionary the overview builds for one unpaid row; aluno_id stands
\* for the student the dictionary names.
Info(registro, today) ==
    LET vencimento == calcular_vencimento(registro.competencia, DIA_VENCIMENTO_PADRAO)
    IN  [aluno_id |-> registro.aluno_id, valor |-> parse_decimal(registro.valor),
         vencimento |-> vencimento, competencia |-> registro.competencia,
         dias |-> DaysBetween(vencimento, today)]

\* if 0 <= dias <= 7
Vencendo(infos) ==
    SelectSeq(infos, LAMBDA i : 0 <= i.dias /\ i.dias <= 7)

\* elif dias < 0: the row is listed with dias_atraso = abs(dias)
Vencidas(infos) ==
    LET late == SelectSeq(infos, LAMBDA i : ~(0 <= i.dias /\ i.dias <= 7) /\ i.dias < 0)
    IN  [k \in 1..Len(late) |->
           [aluno_id |-> late[k].aluno_id, valor |-> late[k].valor,
            vencimento |-> late[k].vencimento, competencia |-> late[k].competencia,
            dias_atraso |-> 0 - late[k].dias]]

\* vencendo_semana.sort(key=lambda item: item.get("dias", 0))
SortByDias(lista) ==
    Items(sorted([i \in 1..Len(lista) |-> [key |-> lista[i].dias, item |-> lista[i]]]))

\* vencidas.sort(key=lambda item: item.get("dias_atraso", 0), reverse=True)
SortByAtraso(lista) ==
    Items(sorted([i \in 1..Len(lista) |->
                    [key |-> 0 - lista[i].dias_atraso, item |-> lista[i]]]))

Infos(pendencias, today) ==
    [i \in 1..Len(pendencias) |-> Info(pendencias[i], today)]

\* The six calls of the history, from `offset` months back to the current
\* month: the payments table the last of them commits.
RECURSIVE Historico(_, _, _, _)
Historico(ordem, mes_atual, offset, pags) ==
    LET committed == {ReconcileLoop(ordem, MonthsAgo(mes_atual, offset),
                                    [pagamentos |-> pags, registros |-> <<>>]).pagamentos}
    IN  CHOOSE fim \in {IF offset = 0 THEN p
                        ELSE Historico(ordem, mes_atual, offset - 1, p) :
                            p \in committed} : TRUE

\* Mutant: the unpaid rows are read once the history has been reconciled.
StoreRead_AfterHistory(after_month, after_history) == after_history

\* The table the query of the unpaid rows reads: it runs between the
\* reconciliation of the current month and the history loop.
StoreRead(after_month, after_history) == after_month

\* GET /financeiro: reconciles the current month, lists the unpaid rows that
\* fall due within a week and those overdue, then reconciles the six months
\* up to the current one.  The history figures, the recent payments and the
\* scholarship students it also renders change nothing and are left out.
\* The tables and the totals of a reconciliation do not depend on the order
\* the students are read in; the order of the rows of one month in the two
\* lists does, and is any order of the students.
financeiro(uid) ==
    LET gate == permission_required(uid, "pagamentos")
        mes_atual == first_day_of_month(hoje)
        por_nome == CHOOSE o \in OrderByNome(alunos) : TRUE
    IN  /\ IF gate # "view"
           THEN /\ resp' = Answer(uid, "financeiro", "GET", gate)
                /\ UNCHANGED pagamentos
           ELSE \E r \in {pagamentos_do_mes_referencia(por_nome, mes_atual)} :
                \E fim \in {Historico(por_nome, mes_atual, 5, r.pagamentos)} :
                \E ordem \in OrderByNome(alunos) :
                   LET infos == Infos(Pendencias(StoreRead(r.pagamentos, fim), ordem),
                                      hoje)
                   IN  /\ pagamentos' = fim
                       /\ resp' =
                            [uid |-> uid, route |-> "financeiro", method |-> "GET",
                             outcome |-> "view", mes_atual |-> mes_atual,
                             resumo |-> r.resumo,
                             vencendo_semana |-> SortByDias(Vencendo(infos)),
                             vencidas |-> SortByAtraso(Vencidas(infos))]
        /\ UNCHANGED <<users, turmas, alunos, presencas, hoje, inflight>>

-----------------------------------------------------------------------------
(* Birthdays: Aluno.dias_para_aniversario and upcoming_birthdays.          *)

\* date.replace(year=...) raises ValueError when the year has no such day.
\* kind is "none" (no birth date), "ValueError" or "dias".
dias_para_aniversario(data_nascimento, referencia) ==
    LET este == Date(referencia.year, data_nascimento.month, data_nascimento.day)
        seguinte == Date(referencia.year + 1, data_nascimento.month,
                         data_nascimento.day)
    IN  IF data_nascimento = NoDate THEN [kind |-> "none", dias |-> 0]
        ELSE IF ~IsValidDate(este) THEN [kind |-> "ValueError", dias |-> 0]
        ELSE IF ~DateLt(este, referencia)
        THEN [kind |-> "dias", dias |-> DaysBetween(este, referencia)]
        ELSE IF ~IsValidDate(seguinte) THEN [kind |-> "ValueError", dias |-> 0]
        ELSE [kind |-> "dias", dias |-> DaysBetween(seguinte, referencia)]

\* upcoming_birthdays(alunos) on the day `today`: the list it returns, or the
\* exception that leaves it.
upcoming_birthdays(rows, today) ==
    LET dias(i) == dias_para_aniversario(rows[i].data_nascimento, today)
        kept == SelectSeq([i \in 1..Len(rows) |->
                              [key |-> dias(i).dias, kind |-> dias(i).kind,
                               item |-> [nome |-> rows[i].nome,
                                         data |-> rows[i].data_nascimento,
                                         dias_para_aniversario |-> dias(i).dias]]],
                          LAMBDA r : r.kind = "dias" /\ r.key <= 45)
        proximos == Items(sorted(kept))
    IN  IF \E i \in 1..Len(rows) : dias(i).kind = "ValueError"
        THEN [outcome |-> "ValueError", aniversarios |-> <<>>]
        ELSE [outcome |-> "return",
              aniversarios |-> SubSeq(proximos, 1, min(6, Len(proximos)))]

\* GET /dashboard: any logged-in user.  It reconciles the current month,
\* which commits, and then builds the birthday list of the students that
\* have a birth date: an exception there leaves the view unanswered (500)
\* with the reconciliation already in the table.  The counts and the chart
\* it also renders change nothing and are left out.
dashboard(uid) ==
    LET gate == login_required(uid)
        mes_atual == first_day_of_month(hoje)
        aniversarios ==
            upcoming_birthdays(SeqOfSet({a \in alunos : a.data_nascimento # NoDate}),
                               hoje)
    IN  /\ IF gate # "view"
           THEN /\ resp' = Answer(uid, "dashboard", "GET", gate)
                /\ UNCHANGED pagamentos
           ELSE \E ordem \in OrderByNome(alunos) :
                   LET r == pagamentos_do_mes_referencia(ordem, mes_atual)
                   IN  /\ pagamentos' = r.pagamentos
                       /\ resp' = IF aniversarios.outcome = "ValueError"
                                  THEN Answer(uid, "dashboard", "GET", "500")
                                  ELSE Reconciled(uid, "dashboard", mes_atual, r)
        /\ UNCHANGED <<users, turmas, alunos, presencas, hoje, inflight>>

-----------------------------------------------------------------------------
(* Attendance.                                                             *)

\* Presenca.query.filter_by(aluno_id=..., data=...)
PresencasDe(pres, aluno_id, data) ==
    {r \in BagToSet(pres) : r.aluno_id = aluno_id /\ r.data = data}

\* Mutant: the row is never fetched, every submission inserts one.
UpsertPresenca_AlwaysInsert(aluno, turma_id, data_registro, presentes_ids, pres) ==
    BagAdd(pres, [data |-> data_registro, presente |-> (aluno.id \in presentes_ids),
                  aluno_id |-> aluno.id, turma_id |-> turma_id])

\* The loop body of the attendance form for one student of the class.
UpsertPresenca(aluno, turma_id, data_registro, presentes_ids, pres) ==
    LET found == PresencasDe(pres, aluno.id, data_registro)
        old == IF found # {} THEN CHOOSE r \in found : TRUE
               ELSE [data |-> data_registro, presente |-> TRUE,
                     aluno_id |-> aluno.id, turma_id |-> turma_id]
        base == IF found # {} THEN BagRemove(pres, old) ELSE pres
        new == [old EXCEPT !.presente = (aluno.id \in presentes_ids),
                           !.turma_id = turma_id]
    IN  BagAdd(base, new)

RECURSIVE UpsertLoop(_, _, _, _, _)
UpsertLoop(rest, turma_id, data_registro, presentes_ids, pres) ==
    IF rest = {} THEN pres
    ELSE LET aluno == CHOOSE a \in rest : TRUE
         IN  UpsertLoop(rest \ {aluno}, turma_id, data_registro, presentes_ids,
                        UpsertPresenca(aluno, turma_id, data_registro,
                                       presentes_ids, pres))

\* POST /presencas.  The answer also records (for the properties below; the
\* program keeps no such record) which students already had a row for the date.
presencas_POST(uid, turma_id, data_raw, presentes_ids) ==
    LET gate == permission_required(uid, "presencas")
        parsed == parse_date(data_raw)
        data_registro == IF parsed # NoDate THEN parsed ELSE hoje
        found == {t \in turmas : t.id = turma_id}
        turma_alunos == {a \in alunos : a.turma_id = turma_id}
    IN  /\ IF gate # "view"
           THEN /\ resp' = Answer(uid, "presencas", "POST", gate)
                /\ UNCHANGED presencas
           ELSE IF found = {}
           THEN /\ resp' = Answer(uid, "presencas", "POST", "404")
                /\ UNCHANGED presencas
           ELSE /\ presencas' = UpsertLoop(turma_alunos, turma_id, data_registro,
                                           presentes_ids, presencas)
                /\ resp' = [uid |-> uid, route |-> "presencas", method |-> "POST",
                            outcome |-> "success", turma_id |-> turma_id,
                            data |-> data_registro, presentes_ids |-> presentes_ids,
                            updated |-> {a.id : a \in {x \in turma_alunos :
                                PresencasDe(presencas, x.id, data_registro) # {}}}]
        /\ UNCHANGED <<users, turmas, alunos, pagamentos, hoje, inflight>>

-----------------------------------------------------------------------------
(* User management.                                                        *)

\* str.lower() on the user names of the model.
Lower(name) == IF name = "Admin" THEN "admin" ELSE IF name = "Bia" THEN "bia" ELSE name

CountAdmins == Cardinality({u \in users : u.role = "admin"})

\* Mutant: the check looks at requests about other accounts only.
UpdateRoleRefused_Others(usuario, uid, role) ==
    usuario.id # uid /\ role # "admin" /\ CountAdmins = 1

\* update_role: the request is refused as a removal of the last administrator.
UpdateRoleRefused(usuario, uid, role) ==
    usuario.id = uid /\ role # "admin" /\ CountAdmins = 1

\* delete: which refusal applies, "" when none does.
DeleteRefused(usuario, uid) ==
    IF Lower(usuario.username) = "admin" THEN "padrao"
    ELSE IF usuario.id = uid THEN "logado"
    ELSE IF usuario.role = "admin" /\ CountAdmins = 1 THEN "ultimo"
    ELSE ""

\* The users table after a POST /usuarios that passed the gate, with the
\* outcome reported.
ManageUsers(uid, form) ==
    LET found == {u \in users : u.id = form.user_id}
        usuario == CHOOSE u \in found : TRUE
        same(outcome) == [users |-> users, outcome |-> outcome]
    IN  IF form.action = "create"
        THEN LET username == Lower(form.username)
             IN  IF \/ username = "" \/ form.password = ""
                    \/ form.password # form.confirm_password
                    \/ Len(form.password) < 6
                    \/ form.role \notin ROLE_CHOICES
                    \/ \E u \in users : Lower(u.username) = username
                 THEN same("error")
                 ELSE [users |-> users \cup
                          {[id |-> FreshId(users), username |-> username,
                            password |-> form.password, role |-> form.role]},
                       outcome |-> "success"]
        ELSE IF form.action = "update_role"
        THEN IF found = {} THEN same("404")
             ELSE IF form.role \notin ROLE_CHOICES THEN same("error")
             ELSE IF UpdateRoleRefused(usuario, uid, form.role) THEN same("error")
             ELSE [users |-> (users \ found) \cup {[usuario EXCEPT !.role = form.role]},
                   outcome |-> "success"]
        ELSE IF form.action = "reset_password"
        THEN IF found = {} THEN same("404")
             ELSE IF Len(form.password) < 6 \/ form.password # form.confirm_password
             THEN same("error")
             ELSE [users |-> (users \ found) \cup
                               {[usuario EXCEPT !.password = form.password]},
                   outcome |-> "success"]
        ELSE IF form.action = "delete"
        THEN IF found = {} THEN same("404")
             ELSE IF DeleteRefused(usuario, uid) # "" THEN same("error")
             ELSE [users |-> users \ found, outcome |-> "success"]
        ELSE same("error")

\* POST /usuarios
manage_users_POST(uid, form) ==
    LET gate == permission_required(uid, "users")
        r == ManageUsers(uid, form)
        answer(outcome) ==
            [route |-> "manage_users", method |-> "POST", outcome |-> outcome,
             uid |-> uid, action |-> form.action, user_id |-> form.user_id,
             role |-> form.role]
    IN  /\ form.action = "create" => Cardinality(users) < MaxUsers
        /\ IF gate # "view"
           THEN /\ resp' = answer(gate)
                /\ UNCHANGED users
           ELSE /\ users' = r.users
                /\ resp' = answer(r.outcome)
        /\ UNCHANGED <<turmas, alunos, presencas, pagamentos, hoje, inflight>>

-----------------------------------------------------------------------------
(* Settings.                                                               *)

\* POST /configuracoes/backup: copies the database file; no table changes.
backup_banco(uid) ==
    LET gate == permission_required(uid, "config")
    IN  /\ resp' = Answer(uid, "backup_banco", "POST",
                          IF gate # "view" THEN gate ELSE "success")
        /\ UNCHANGED <<users, turmas, alunos, presencas, pagamentos, hoje,
                       inflight>>

-----------------------------------------------------------------------------
(* User management, two requests at a time.  A request handled by another  *)
(* worker runs between a handler's last read and its commit: the handler   *)
(* reads (gate, get_or_404, its checks) in one step and commits in a later *)
(* one, against the table as it then is.                                   *)

\* The workers that serve requests side by side.
Tids == {1, 2}

Idle(tid) == \A r \in inflight : r.tid # tid

\* The UPDATE or DELETE the handler's commit sends for the row it fetched, on
\* the table as it is at the commit: a row that is gone matches nothing and
\* the request ends in an unhandled error.
CommitUsers(form) ==
    LET found == {u \in users : u.id = form.user_id}
        usuario == CHOOSE u \in found : TRUE
    IN  IF found = {} THEN [users |-> users, outcome |-> "500"]
        ELSE IF form.action = "update_role"
        THEN [users |-> (users \ found) \cup {[usuario EXCEPT !.role = form.role]},
              outcome |-> "success"]
        ELSE [users |-> users \ found, outcome |-> "success"]

\* POST /usuarios (update_role, delete) up to its commit: a request the gate
\* or a check turns away is answered at once, another waits to commit.
manage_users_begin(tid, uid, form) ==
    LET gate == permission_required(uid, "users")
        r == ManageUsers(uid, form)
        answer(outcome) ==
            [route |-> "manage_users", method |-> "POST", outcome |-> outcome,
             uid |-> uid, action |-> form.action, user_id |-> form.user_id,
             role |-> form.role]
    IN  /\ Idle(tid)
        /\ form.action \in {"update_role", "delete"}
        /\ IF gate # "view"
           THEN /\ resp' = answer(gate)
                /\ UNCHANGED inflight
           ELSE IF r.outcome # "success"
           THEN /\ resp' = answer(r.outcome)
                /\ UNCHANGED inflight
           ELSE /\ inflight' = inflight \cup
                      {[tid |-> tid, table |-> "users", uid |-> uid,
                        form |-> form]}
                /\ UNCHANGED resp
        /\ UNCHANGED <<users, turmas, alunos, presencas, pagamentos, hoje>>

\* db.session.commit() of a waiting POST /usuarios.
manage_users_commit(tid) ==
    \E r \in inflight :
       /\ r.tid = tid /\ r.table = "users"
       /\ LET c == CommitUsers(r.form)
          IN  /\ users' = c.users
              /\ resp' = [route |-> "manage_users", method |-> "POST",
                          outcome |-> c.outcome, uid |-> r.uid,
                          action |-> r.form.action, user_id |-> r.form.user_id,
                          role |-> r.form.role]
       /\ inflight' = inflight \ {r}
       /\ UNCHANGED <<turmas, alunos, presencas, pagamentos, hoje>>

-----------------------------------------------------------------------------
(* Payments and attendance, two requests at a time.  What a handler adds,  *)
(* changes and deletes stays in its session until db.session.commit(); the *)
(* commit sends it to the tables as they then are, where the unique        *)
(* constraints uq_pagamento_competencia and uq_presenca_aluno_data decide. *)

\* Two rows of a table have the same unique key.
SameKey(table, a, b) ==
    /\ a.aluno_id = b.aluno_id
    /\ IF table = "pagamentos" THEN a.competencia = b.competencia
       ELSE a.data = b.data

\* What the session holds for a row it added (INSERT), or for a row it read
\* and changed in the columns cols (UPDATE; none when nothing changed), or
\* for a row it read and deleted (DELETE).
Insert(row) == [op |-> "insert", row |-> row, cols |-> {}]
Update(old, new) ==
    [op |-> "update", row |-> new,
     cols |-> {c \in DOMAIN new : new[c] # old[c]}]
Delete(row) == [op |-> "delete", row |-> row, cols |-> {}]

\* One statement of the commit on the table as it is: the table after it, or
\* the exception it raises.
ApplyOp(table, store, op) ==
    LET hit == {x \in BagToSet(store) : SameKey(table, x, op.row)}
        cur == CHOOSE x \in hit : TRUE
        ok(st) == [store |-> st, error |-> ""]
    IN  IF op.op = "insert"
        THEN IF hit # {} THEN [store |-> store, error |-> "IntegrityError"]
             ELSE ok(BagAdd(store, op.row))
        ELSE IF op.cols = {} /\ op.op = "update" THEN ok(store)
        ELSE IF hit = {} THEN [store |-> store, error |-> "StaleDataError"]
        ELSE IF op.op = "delete" THEN ok(BagRemove(store, cur))
        ELSE ok(BagAdd(BagRemove(store, cur),
                       [c \in DOMAIN cur |->
                           IF c \in op.cols THEN op.row[c] ELSE cur[c]]))

RECURSIVE ApplyOps(_, _, _)
ApplyOps(table, store, ops) ==
    IF ops = <<>> THEN [store |-> store, error |-> ""]
    ELSE LET r == ApplyOp(table, store, Head(ops))
         IN  IF r.error # "" THEN r ELSE ApplyOps(table, r.store, Tail(ops))

\* A request between its reads and its commit: the table it writes, the
\* students its loop has still to visit, the rows it will return, the
\* statements of its session and the answer it gives when the commit passes.
Session(tid, table, ordem, ops, answer) ==
    [tid |-> tid, table |-> table, ordem |-> ordem, registros |-> <<>>,
     ops |-> ops, answer |-> answer]

\* GET /pagamentos up to the loop of pagamentos_do_mes_referencia.
reconcile_begin(tid, uid, competencia_raw) ==
    LET gate == permission_required(uid, "pagamentos")
        competencia == parse_month(competencia_raw, hoje)
    IN  /\ Idle(tid)
        /\ IF gate # "view"
           THEN /\ resp' = Answer(uid, "pagamentos", "GET", gate)
                /\ UNCHANGED inflight
           ELSE /\ \E ordem \in OrderByNome(alunos) :
                      inflight' = inflight \cup
                         {Session(tid, "pagamentos", ordem, <<>>,
                                  Reconciled(uid, "pagamentos", competencia,
                                     [registros |-> <<>>, resumo |-> Resumo(<<>>)]))}
                /\ UNCHANGED resp
        /\ UNCHANGED <<users, turmas, alunos, presencas, pagamentos, hoje>>

\* Mutant: every pass of the loop commits what it did.
StoreAfterPass_CommitEach(store, passed) == passed

\* The payments table after one pass of the loop: the pass commits nothing.
StoreAfterPass(store, passed) == store

\* One pass of the loop of pagamentos_do_mes_referencia, for the next
\* student: the row is queried in the table as it is now.
reconcile_step(tid) ==
    \E r \in inflight :
       /\ r.tid = tid /\ r.table = "pagamentos" /\ r.ordem # <<>>
       /\ LET aluno == Head(r.ordem)
              referencia == r.answer.referencia
              found == PagamentosDe(pagamentos, aluno.id, referencia)
              old == CHOOSE x \in found : TRUE
              acc == ReconcileAluno(aluno, referencia,
                        [pagamentos |-> pagamentos, registros |-> r.registros])
              new == acc.registros[Len(acc.registros)]
              op == IF aluno.projeto_social
                    THEN (IF found # {} THEN <<Delete(old)>> ELSE <<>>)
                    ELSE IF found = {} THEN <<Insert(new)>>
                    ELSE <<Update(old, new)>>
          IN  /\ inflight' = (inflight \ {r}) \cup
                     {[r EXCEPT !.ordem = Tail(r.ordem),
                                !.registros = acc.registros,
                                !.ops = r.ops \o op]}
              /\ pagamentos' = StoreAfterPass(pagamentos, acc.pagamentos)
       /\ UNCHANGED <<users, turmas, alunos, presencas, hoje, resp>>

\* POST /pagamentos up to its commit.
toggle_begin(tid, uid, competencia_raw, aluno_id, status) ==
    LET gate == permission_required(uid, "pagamentos")
        competencia == parse_month(competencia_raw, hoje)
        found == {a \in alunos : a.id = aluno_id}
    IN  /\ Idle(tid)
        /\ IF gate # "view"
           THEN /\ resp' = Answer(uid, "pagamentos", "POST", gate)
                /\ UNCHANGED inflight
           ELSE IF found = {}
           THEN /\ resp' = Answer(uid, "pagamentos", "POST", "404")
                /\ UNCHANGED inflight
           ELSE LET aluno == CHOOSE a \in found : TRUE
                    rows == PagamentosDe(pagamentos, aluno.id, competencia)
                    old == IF rows # {} THEN CHOOSE x \in rows : TRUE
                           ELSE NewPagamento(aluno, competencia)
                    valued == [old EXCEPT
                                 !.valor = parse_decimal(aluno.valor_mensalidade)]
                    new == IF status = "pago" THEN marcar_pago(valued, hoje)
                           ELSE marcar_pendente(valued)
                IN  /\ inflight' = inflight \cup
                          {Session(tid, "pagamentos", <<>>,
                              IF rows = {} THEN <<Insert(new)>>
                              ELSE <<Update(old, new)>>,
                              [uid |-> uid, route |-> "pagamentos",
                               method |-> "POST", outcome |-> "success",
                               referencia |-> competencia,
                               aluno_id |-> aluno_id, status |-> status])}
                    /\ UNCHANGED resp
        /\ UNCHANGED <<users, turmas, alunos, presencas, pagamentos, hoje>>

\* The statement the attendance loop leaves in the session for one student.
PresencaOp(aluno, turma_id, data_registro, presentes_ids) ==
    LET found == PresencasDe(presencas, aluno.id, data_registro)
        old == CHOOSE x \in found : TRUE
        new == CHOOSE x \in PresencasDe(
                   UpsertPresenca(aluno, turma_id, data_registro, presentes_ids,
                                  presencas), aluno.id, data_registro) : TRUE
    IN  IF found = {} THEN Insert(new) ELSE Update(old, new)

RECURSIVE PresencaOps(_, _, _, _)
PresencaOps(rest, turma_id, data_registro, presentes_ids) ==
    IF rest = {} THEN <<>>
    ELSE LET aluno == CHOOSE a \in rest : TRUE
         IN  <<PresencaOp(aluno, turma_id, data_registro, presentes_ids)>>
               \o PresencaOps(rest \ {aluno}, turma_id, data_registro,
                              presentes_ids)

\* POST /presencas up to its commit.
presencas_begin(tid, uid, turma_id, data_raw, presentes_ids) ==
    LET gate == permission_required(uid, "presencas")
        parsed == parse_date(data_raw)
        data_registro == IF parsed # NoDate THEN parsed ELSE hoje
        found == {t \in turmas : t.id = turma_id}
        turma_alunos == {a \in alunos : a.turma_id = turma_id}
    IN  /\ Idle(tid)
        /\ IF gate # "view"
           THEN /\ resp' = Answer(uid, "presencas", "POST", gate)
                /\ UNCHANGED inflight
           ELSE IF found = {}
           THEN /\ resp' = Answer(uid, "presencas", "POST", "404")
                /\ UNCHANGED inflight
           ELSE /\ inflight' = inflight \cup
                      {Session(tid, "presencas", <<>>,
                          PresencaOps(turma_alunos, turma_id, data_registro,
                                      presentes_ids),
                          [uid |-> uid, route |-> "presencas", method |-> "POST",
                           outcome |-> "success", turma_id |-> turma_id,
                           data |-> data_registro,
                           presentes_ids |-> presentes_ids,
                           updated |-> {a.id : a \in {x \in turma_alunos :
                              PresencasDe(presencas, x.id, data_registro) # {}}}])}
                /\ UNCHANGED resp
        /\ UNCHANGED <<users, turmas, alunos, presencas, pagamentos, hoje>>

\* How a handler ends when its commit raises: presencas() catches
\* IntegrityError, rolls back and redirects with a message; nothing else is
\* caught anywhere.
CommitFailure(route, method, error) ==
    IF route = "presencas" /\ error = "IntegrityError" THEN "error" ELSE error

\* db.session.commit() of a session whose loop is done.
session_commit(tid) ==
    \E r \in inflight :
       /\ r.tid = tid /\ r.table \in {"pagamentos", "presencas"} /\ r.ordem = <<>>
       /\ LET store == IF r.table = "pagamentos" THEN pagamentos ELSE presencas
              c == ApplyOps(r.table, store, r.ops)
              after == IF c.error = "" THEN c.store ELSE store
          IN  /\ IF r.table = "pagamentos"
                 THEN pagamentos' = after /\ UNCHANGED presencas
                 ELSE presencas' = after /\ UNCHANGED pagamentos
              /\ resp' =
                    IF c.error # ""
                    THEN Answer(r.answer.uid, r.answer.route, r.answer.method,
                                CommitFailure(r.answer.route, r.answer.method,
                                              c.error))
                    ELSE IF r.answer.method = "GET"
                    THEN [r.answer EXCEPT !.registros = r.registros,
                                          !.resumo = Resumo(r.registros)]
                    ELSE r.answer
       /\ inflight' = inflight \ {r}
       /\ UNCHANGED <<users, turmas, alunos, hoje>>

\* A request that raises before its commit (the store or the connection
\* fails): the session is discarded with what it held.
session_fails(tid) ==
    \E r \in inflight :
       /\ r.tid = tid /\ r.table \in {"pagamentos", "presencas"}
       /\ resp' = [uid |-> r.answer.uid, route |-> r.answer.route,
                   method |-> r.answer.method, outcome |-> "OperationalError",
                   ops |-> r.ops, ordem |-> r.ordem]
       /\ inflight' = inflight \ {r}
       /\ UNCHANGED <<users, turmas, alunos, presencas, pagamentos, hoje>>

-----------------------------------------------------------------------------
(* The clock.                                                              *)

\* The days on which the model's requests arrive.
Datas == <<Date(2024, 3, 10), Date(2024, 4, 5), Date(2024, 5, 2)>>

PassaTempo(ate) ==
    /\ \E i \in 1..Len(Datas) :
          /\ i <= ate
          /\ DateLt(hoje, Datas[i])
          /\ hoje' = Datas[i]
    /\ UNCHANGED <<users, turmas, alunos, presencas, pagamentos, resp,
                   inflight>>

-----------------------------------------------------------------------------
(* Initial state: the store bootstrap() leaves, on the first model day.    *)

Init ==
    /\ users = {[id |-> 1, username |-> "admin", password |-> "admin123",
                 role |-> "admin"]}
    /\ turmas = {}
    /\ alunos = {}
    /\ presencas = EmptyBag
    /\ pagamentos = EmptyBag
    /\ hoje = Datas[1]
    /\ resp = Answer(0, "", "", "")
    /\ inflight = {}

-----------------------------------------------------------------------------
(* Requests of the model.                                                  *)

Telefone == <<"9", "9", "9", "9", "9", "-", "0", "0", "0", "0">>

TurmaForm ==
    [nome |-> "Sub-11", categoria |-> "Sub-11", dias_horario |-> "Seg 18h",
     local_treino |-> "Campo 1"]

AlunoForm(nome, status, valor, projeto_social, turma_id) ==
    [nome |-> nome, idade |-> IntText(10), responsavel |-> "Rita",
     telefone |-> Telefone, turma_id |-> turma_id, status |-> status,
     data_nascimento |-> NoDate, valor_mensalidade |-> valor,
     projeto_social |-> projeto_social]

\* "100,00", "150,005" and "-5,00"
Valores ==
    {NumText(FALSE, 100, ",", 0, 2), NumText(FALSE, 150, ",", 5, 3),
     NumText(TRUE, 5, ",", 0, 2)}

\* "2024-03" and "2024-04"
Competencias == {YearMonth(2024, 3), YearMonth(2024, 4)}

AlunoIds == 1..MaxAlunos

(* Payments: students are enrolled, edited and removed, the month of the   *)
(* first model day is viewed and its payments marked, by the administrator. *)
CreateFormsPag ==
    {AlunoForm("Ana", s, NumText(FALSE, 100, ",", 0, 2), p, IntText(1)) :
        s \in {"ativo", "inativo"}, p \in BOOLEAN}
    \cup {AlunoForm("Ana", "ativo", NumText(TRUE, 5, ",", 0, 2), FALSE, IntText(1))}

EditFormsPag ==
    {AlunoForm("Ana", "ativo", NumText(FALSE, 150, ",", 5, 3), FALSE, IntText(1)),
     AlunoForm("Ana", "ativo", NumText(FALSE, 100, ",", 0, 2), TRUE, IntText(1)),
     AlunoForm("Ana", "inativo", NumText(FALSE, 100, ",", 0, 2), FALSE, IntText(1))}

\* One class exists: the state one POST /turmas by the administrator leaves.
InitPag ==
    /\ users = {[id |-> 1, username |-> "admin", password |-> "admin123",
                 role |-> "admin"]}
    /\ turmas = {[id |-> 1, nome |-> "Sub-11", categoria |-> "Sub-11",
                  dias_horario |-> "Seg 18h", local_treino |-> "Campo 1"]}
    /\ alunos = {}
    /\ presencas = EmptyBag
    /\ pagamentos = EmptyBag
    /\ hoje = Datas[1]
    /\ resp = Answer(1, "list_turmas", "POST", "success")
    /\ inflight = {}

NextPag ==
    \/ \E form \in CreateFormsPag : list_alunos_POST(1, form)
    \/ \E id \in AlunoIds, form \in EditFormsPag : edit_aluno_POST(1, id, form)
    \/ \E id \in AlunoIds : delete_aluno(1, id)
    \/ pagamentos_GET(1, YearMonth(2024, 3))
    \/ \E id \in AlunoIds, st \in {"pago", "pendente"} :
          pagamentos_POST(1, YearMonth(2024, 3), id, st)

SpecPag == InitPag /\ [][NextPag]_vars

(* Payments over two months: paying students are enrolled, put on          *)
(* scholarship and taken off it, either month is viewed, the dashboard is  *)
(* opened and payments of the second month are marked paid.                *)
CreateFormsMeses ==
    {AlunoForm("Ana", "ativo", NumText(FALSE, 100, ",", 0, 2), FALSE, IntText(1))}

EditFormsMeses ==
    {AlunoForm("Ana", "ativo", NumText(FALSE, 100, ",", 0, 2), p, IntText(1)) :
        p \in BOOLEAN}

NextMeses ==
    \/ \E form \in CreateFormsMeses : list_alunos_POST(1, form)
    \/ \E id \in AlunoIds, form \in EditFormsMeses : edit_aluno_POST(1, id, form)
    \/ \E c \in Competencias : pagamentos_GET(1, c)
    \/ \E id \in AlunoIds : pagamentos_POST(1, YearMonth(2024, 4), id, "pago")
    \/ dashboard(1)

SpecMeses == InitPag /\ [][NextMeses]_vars

(* Attendance: classes are created, students enrolled and moved between    *)
(* classes, and attendance submitted for a class and a day.                *)
TurmaIds == 1..MaxTurmas

\* Students are enrolled in, and moved between, the first two classes.
AlunoFormsPres ==
    {AlunoForm("Ana", "ativo", NumText(FALSE, 100, ",", 0, 2), FALSE, IntText(t)) :
        t \in {1, 2}}

\* "2024-03-10", the first model day, and "2024-02-30", which is no date and
\* stands for today.
DatasForm == {Date(2024, 3, 10), Date(2024, 2, 30)}

NextPres ==
    \/ list_turmas_POST(1, TurmaForm)
    \/ \E form \in AlunoFormsPres : list_alunos_POST(1, form)
    \/ \E id \in AlunoIds, form \in AlunoFormsPres : edit_aluno_POST(1, id, form)
    \/ \E t \in TurmaIds, d \in DatasForm, ids \in SUBSET AlunoIds :
          presencas_POST(1, t, d, ids)

SpecPres == Init /\ [][NextPres]_vars

(* Due dates: calcular_vencimento is called once, on a month of 2023 or   *)
(* 2024 and a due day of 1 to 31.                                          *)
CompetenciasVenc == {Date(y, m, 1) : y \in {2023, 2024}, m \in 1..12}

DiasVenc == 1..31

InitVenc ==
    /\ users = {[id |-> 1, username |-> "admin", password |-> "admin123",
                 role |-> "admin"]}
    /\ turmas = {}
    /\ alunos = {}
    /\ presencas = EmptyBag
    /\ pagamentos = EmptyBag
    /\ hoje = Datas[1]
    /\ inflight = {}
    /\ \E c \in CompetenciasVenc, d \in DiasVenc :
          resp = [uid |-> 0, route |-> "calcular_vencimento", method |-> "",
                  outcome |-> "", competencia |-> c, dia_vencimento |-> d,
                  vencimento |-> NoDate]

\* The call: the arguments are those drawn at the start.
calcular_vencimento_call ==
    /\ resp.route = "calcular_vencimento" /\ resp.outcome = ""
    /\ resp' = [resp EXCEPT
                  !.outcome = "return",
                  !.vencimento = calcular_vencimento(resp.competencia,
                                                     resp.dia_vencimento)]
    /\ UNCHANGED <<users, turmas, alunos, presencas, pagamentos, hoje, inflight>>

NextVenc == calcular_vencimento_call

SpecVenc == InitVenc /\ [][NextVenc]_vars

(* The financial overview: students are enrolled, the first one's March    *)
(* is marked paid, days pass and the overview is opened.                   *)
NextFin ==
    \/ \E form \in CreateFormsMeses : list_alunos_POST(1, form)
    \/ pagamentos_POST(1, YearMonth(2024, 3), 1, "pago")
    \/ PassaTempo(3)
    \/ financeiro(1)

SpecFin == InitPag /\ [][NextFin]_vars

(* Birthdays: upcoming_birthdays is called once, on 10 March or            *)
(* 1 December 2024, with up to seven students born on days of 2012.        *)
MaxAniversariantes == 7

HojeAniv == {Date(2024, 3, 10), Date(2024, 12, 1)}

\* 10 March, 19 April (40 days after 10 March), 18 June (100 days after it),
\* 5 January and 29 February.
NascimentosAniv ==
    {Date(2012, 3, 10), Date(2012, 4, 19), Date(2012, 6, 18), Date(2012, 1, 5),
     Date(2012, 2, 29)}

InitAniv ==
    /\ users = {[id |-> 1, username |-> "admin", password |-> "admin123",
                 role |-> "admin"]}
    /\ turmas = {}
    /\ alunos = {}
    /\ presencas = EmptyBag
    /\ pagamentos = EmptyBag
    /\ hoje \in HojeAniv
    /\ inflight = {}
    /\ \E n \in 0..MaxAniversariantes : \E ds \in [1..n -> NascimentosAniv] :
          resp = [uid |-> 0, route |-> "upcoming_birthdays", method |-> "",
                  outcome |-> "",
                  alunos |-> [i \in 1..n |-> [nome |-> "Ana", data_nascimento |-> ds[i]]],
                  aniversarios |-> <<>>]

\* The call: the students are those drawn at the start.
upcoming_birthdays_call ==
    /\ resp.route = "upcoming_birthdays" /\ resp.outcome = ""
    /\ LET r == upcoming_birthdays(resp.alunos, hoje)
       IN  resp' = [resp EXCEPT !.outcome = r.outcome,
                                !.aniversarios = r.aniversarios]
    /\ UNCHANGED <<users, turmas, alunos, presencas, pagamentos, hoje, inflight>>

NextAniv == upcoming_birthdays_call

SpecAniv == InitAniv /\ [][NextAniv]_vars

(* The dashboard with birthdays: students born on 5 January, 29 February,  *)
(* 10 March or 19 April 2012 are enrolled, days pass and the dashboard is   *)
(* opened.                                                                 *)
FormsDias ==
    {[AlunoForm("Ana", "ativo", NumText(FALSE, 100, ",", 0, 2), FALSE, IntText(1))
        EXCEPT !.idade = NoInt, !.data_nascimento = d] :
        d \in {Date(2012, 1, 5), Date(2012, 2, 29), Date(2012, 3, 10),
               Date(2012, 4, 19)}}

NextDias ==
    \/ \E form \in FormsDias : list_alunos_POST(1, form)
    \/ PassaTempo(3)
    \/ dashboard(1)

SpecDias == InitPag /\ [][NextDias]_vars

(* Classes are created and deleted while students are enrolled in, and     *)
(* moved between, the first two of them.                                   *)
NextTurmas ==
    \/ list_turmas_POST(1, TurmaForm)
    \/ \E t \in TurmaIds : delete_turma(1, t)
    \/ \E form \in AlunoFormsPres : list_alunos_POST(1, form)
    \/ \E id \in AlunoIds, form \in AlunoFormsPres : edit_aluno_POST(1, id, form)

SpecTurmas == Init /\ [][NextTurmas]_vars

(* Students and classes are created, edited and deleted; the student forms *)
(* name the first or the second class, whether or not it exists.           *)
TurmaFormsRefs ==
    {[TurmaForm EXCEPT !.nome = n] : n \in {"Sub-11", "Sub-13"}}

NextRefs ==
    \/ list_turmas_POST(1, TurmaForm)
    \/ \E t \in TurmaIds, form \in TurmaFormsRefs : edit_turma_POST(1, t, form)
    \/ \E t \in TurmaIds : delete_turma(1, t)
    \/ \E form \in AlunoFormsPres : list_alunos_POST(1, form)
    \/ \E id \in AlunoIds, form \in AlunoFormsPres : edit_aluno_POST(1, id, form)
    \/ \E id \in AlunoIds : delete_aluno(1, id)

SpecRefs == Init /\ [][NextRefs]_vars

(* User management: accounts are created, given roles and deleted by       *)
(* whoever holds a session, or by nobody.                                  *)
UserIds == 1..MaxUsers

UserForm(action, username, password, role, user_id) ==
    [action |-> action, username |-> username, password |-> password,
     confirm_password |-> "segredo1", role |-> role, user_id |-> user_id]

UserForms ==
    {UserForm("create", n, pw, r, 0) :
        n \in {"Admin", "Bia", "caio"}, pw \in {"segredo1", "abc"},
        r \in {"admin", "gestor", "dono"}}
    \cup {UserForm(a, "", "", r, id) :
            a \in {"update_role", "delete"},
            r \in {"admin", "instrutor", "dono"}, id \in UserIds}
    \cup {UserForm("reset_password", "", pw, "", id) :
            pw \in {"segredo1", "abc"}, id \in UserIds}

NextUsers ==
    \E uid \in {0} \cup UserIds, form \in UserForms : manage_users_POST(uid, form)

SpecUsers == Init /\ [][NextUsers]_vars

(* User management by two workers: accounts are created one request at a  *)
(* time; role updates and deletions of different sessions interleave.      *)
UserFormsCreate ==
    {UserForm("create", "Bia", "segredo1", "admin", 0),
     UserForm("create", "caio", "segredo1", "gestor", 0)}

UserFormsConc ==
    {UserForm(a, "", "", r, id) :
        a \in {"update_role", "delete"}, r \in {"admin", "gestor"}, id \in UserIds}

NextUsersConc ==
    \/ \E uid \in UserIds, form \in UserFormsCreate : manage_users_POST(uid, form)
    \/ \E tid \in Tids, uid \in UserIds, form \in UserFormsConc :
          manage_users_begin(tid, uid, form)
    \/ \E tid \in Tids : manage_users_commit(tid)

SpecUsersConc == Init /\ [][NextUsersConc]_vars

(* The gate: an administrator, a gestor, an instrutor and a visitor with   *)
(* no session each send every kind of request.                             *)
GateUids == 0..3

AlunoFormGate ==
    AlunoForm("Ana", "ativo", NumText(FALSE, 100, ",", 0, 2), FALSE, IntText(1))

UserFormsGate ==
    {UserForm("update_role", "", "", r, 3) : r \in {"gestor", "instrutor"}}

\* The administrator has created a gestor, an instrutor and one class.
InitGate ==
    /\ users = {[id |-> 1, username |-> "admin", password |-> "admin123",
                 role |-> "admin"],
                [id |-> 2, username |-> "bia", password |-> "segredo1",
                 role |-> "gestor"],
                [id |-> 3, username |-> "caio", password |-> "segredo1",
                 role |-> "instrutor"]}
    /\ turmas = {[id |-> 1, nome |-> "Sub-11", categoria |-> "Sub-11",
                  dias_horario |-> "Seg 18h", local_treino |-> "Campo 1"]}
    /\ alunos = {}
    /\ presencas = EmptyBag
    /\ pagamentos = EmptyBag
    /\ hoje = Datas[1]
    /\ resp = Answer(1, "list_turmas", "POST", "success")
    /\ inflight = {}

NextGate ==
    \/ \E uid \in GateUids : list_alunos_POST(uid, AlunoFormGate)
    \/ \E uid \in GateUids, id \in AlunoIds : delete_aluno(uid, id)
    \/ \E uid \in GateUids : list_turmas_POST(uid, TurmaForm)
    \/ \E uid \in GateUids : presencas_POST(uid, 1, hoje, {1})
    \/ \E uid \in GateUids : pagamentos_GET(uid, YearMonth(2024, 3))
    \/ \E uid \in GateUids, form \in UserFormsGate : manage_users_POST(uid, form)
    \/ \E uid \in GateUids : backup_banco(uid)

SpecGate == InitGate /\ [][NextGate]_vars

(* Payments and attendance by two workers: two paying students of one      *)
(* class are on record; months are viewed, payments marked and attendance  *)
(* submitted by requests whose reads and commits interleave.               *)
InitConc ==
    LET row(id, nome) ==
           AlunoRow(id, AlunoForm(nome, "ativo", NumText(FALSE, 100, ",", 0, 2),
                                  FALSE, IntText(1)),
                    ValidaAluno(AlunoForm(nome, "ativo",
                                          NumText(FALSE, 100, ",", 0, 2),
                                          FALSE, IntText(1)), Datas[1]))
    IN  /\ users = {[id |-> 1, username |-> "admin", password |-> "admin123",
                     role |-> "admin"]}
        /\ turmas = {[id |-> 1, nome |-> "Sub-11", categoria |-> "Sub-11",
                      dias_horario |-> "Seg 18h", local_treino |-> "Campo 1"]}
        /\ alunos = {row(1, "Ana"), row(2, "Bia")}
        /\ presencas = EmptyBag
        /\ pagamentos = EmptyBag
        /\ hoje = Datas[1]
        /\ resp = Answer(1, "list_alunos", "POST", "success")
        /\ inflight = {}

NextConc ==
    \/ \E tid \in Tids : reconcile_begin(tid, 1, YearMonth(2024, 3))
    \/ \E tid \in Tids : reconcile_step(tid)
    \/ \E tid \in Tids, id \in {1, 2}, st \in {"pago", "pendente"} :
          toggle_begin(tid, 1, YearMonth(2024, 3), id, st)
    \/ \E tid \in Tids, ids \in SUBSET {1, 2} :
          presencas_begin(tid, 1, 1, Datas[1], ids)
    \/ \E tid \in Tids : session_commit(tid)

SpecConc == InitConc /\ [][NextConc]_vars

(* A reconciliation run that may fail, requests served one at a time:      *)
(* paying students are enrolled and given another fee or a scholarship;    *)
(* the month is viewed by a request that goes through its loop pass by     *)
(* pass and then commits, or raises at any point before.                   *)
EditFormsRun ==
    {AlunoForm("Ana", "ativo", NumText(FALSE, 150, ",", 5, 3), FALSE, IntText(1)),
     AlunoForm("Ana", "ativo", NumText(FALSE, 100, ",", 0, 2), TRUE, IntText(1))}

NextRun ==
    \/ Idle(1) /\ \E form \in CreateFormsMeses : list_alunos_POST(1, form)
    \/ Idle(1) /\ \E id \in AlunoIds, form \in EditFormsRun :
                     edit_aluno_POST(1, id, form)
    \/ reconcile_begin(1, 1, YearMonth(2024, 3))
    \/ reconcile_step(1)
    \/ session_commit(1)
    \/ session_fails(1)

SpecRun == InitPag /\ [][NextRun]_vars

(* The dashboard opened by every role and by nobody, while the             *)
(* administrator enrolls students, changes their fee and puts them on      *)
(* scholarship.                                                            *)
NextDash ==
    \/ \E form \in CreateFormsMeses : list_alunos_POST(1, form)
    \/ \E id \in AlunoIds, form \in EditFormsRun : edit_aluno_POST(1, id, form)
    \/ \E uid \in GateUids : dashboard(uid)

SpecDash == InitGate /\ [][NextDash]_vars

(* The student forms: one well-formed submission and submissions that     *)
(* differ from it in one field, sent by the administrator to POST /alunos  *)
(* and to POST /alunos/<id>/editar.                                        *)
FormBase ==
    AlunoForm("Ana", "ativo", NumText(FALSE, 100, ",", 0, 2), FALSE, IntText(1))

\* "9999-00" (seven characters), "99a99-0000" and "99999-00ab"
TelefonesRuins ==
    {<<"9", "9", "9", "9", "-", "0", "0">>,
     <<"9", "9", "a", "9", "9", "-", "0", "0", "0", "0">>,
     <<"9", "9", "9", "9", "9", "-", "0", "0", "a", "b">>}

\* "-5,00", "-0,004", "0,00", "150,005", no number, and no field
ValoresForm ==
    {NumText(TRUE, 5, ",", 0, 2), NumText(TRUE, 0, ",", 4, 3),
     NumText(FALSE, 0, ",", 0, 2), NumText(FALSE, 150, ",", 5, 3), BadText, NoText}

\* Birth dates around the two limits on the first model day, and no date.
Nascimentos ==
    {Date(2020, 3, 11), Date(2020, 3, 10), Date(2005, 3, 11), Date(2005, 3, 10),
     Date(2024, 2, 30)}

FormsValida ==
    {FormBase}
    \cup {[FormBase EXCEPT !.nome = ""], [FormBase EXCEPT !.responsavel = ""],
          [FormBase EXCEPT !.telefone = <<>>], [FormBase EXCEPT !.turma_id = NoInt],
          [FormBase EXCEPT !.idade = NoInt]}
    \cup {[FormBase EXCEPT !.idade = i] :
             i \in {IntText(3), IntText(4), IntText(18), IntText(19), BadInt}}
    \cup {[FormBase EXCEPT !.data_nascimento = d, !.idade = i] :
             d \in Nascimentos, i \in {NoInt, IntText(50)}}
    \cup {[FormBase EXCEPT !.telefone = t] : t \in TelefonesRuins}
    \cup {[FormBase EXCEPT !.valor_mensalidade = v, !.projeto_social = b] :
             v \in ValoresForm, b \in BOOLEAN}

NextValida ==
    \/ \E form \in FormsValida : list_alunos_POST(1, form)
    \/ \E id \in AlunoIds, form \in FormsValida : edit_aluno_POST(1, id, form)

SpecValida == InitPag /\ [][NextValida]_vars

-----------------------------------------------------------------------------
(* Properties of the reconciliation and of the payment toggle.             *)

Range(seq) == {seq[i] : i \in 1..Len(seq)}

\* The last request was a reconciliation run that reached its return.
IsReconcile(r) == r.outcome = "view" /\ r.route \in {"pagamentos", "dashboard"}

\* The last request was an accepted paid/pending toggle.
IsToggle(r) == r.route = "pagamentos" /\ r.method = "POST" /\ r.outcome = "success"

\* Rows of the table `pags` held for a student and a month, copies counted.
NumRows(pags, aluno_id, competencia) ==
    BagCardinality(BagOf(pags, LAMBDA p : p.aluno_id = aluno_id
                                          /\ p.competencia = competencia))

RowsOfMonth(pags, competencia) == BagOf(pags, LAMBDA p : p.competencia = competencia)
RowsOfAluno(pags, aluno_id) == BagOf(pags, LAMBDA p : p.aluno_id = aluno_id)

HoldersOf(pags, competencia) ==
    {p.aluno_id : p \in BagToSet(RowsOfMonth(pags, competencia))}

\* C1: a reconciliation run that directly follows a run for the same month
\* leaves the payments table as it is and returns the same rows and the same
\* summary.
C1_Idempotent ==
    [][(IsReconcile(resp) /\ IsReconcile(resp') /\ resp'.referencia = resp.referencia)
         => /\ pagamentos' = pagamentos
            /\ Range(resp'.registros) = Range(resp.registros)
            /\ Len(resp'.registros) = Len(resp.registros)
            /\ resp'.resumo = resp.resumo]_vars

C1_Witness ==
    /\ IsReconcile(resp)
    /\ resp.log.again
    /\ \E r \in Range(resp.registros) : r.pago
    /\ \E r \in Range(resp.registros) : ~r.pago

\* C2 as claimed: after a run for month M the holders of a row for M are
\* exactly the active non-scholarship students, one row each, and the run
\* returns exactly those rows.
C2_ActiveOnly ==
    IsReconcile(resp) =>
       LET M == resp.referencia
           due == {a.id : a \in {x \in alunos : x.status = "ativo" /\ ~x.projeto_social}}
       IN  /\ HoldersOf(pagamentos, M) = due
           /\ \A id \in due : NumRows(pagamentos, id, M) = 1
           /\ Range(resp.registros) = BagToSet(RowsOfMonth(pagamentos, M))
           /\ Len(resp.registros) = Cardinality(due)

\* C2 amended: after a run for month M the holders of a row for M are exactly
\* the non-scholarship students, active or not, one row each, and the run
\* returns exactly those rows.
C2_NonScholarship ==
    IsReconcile(resp) =>
       LET M == resp.referencia
           due == {a.id : a \in {x \in alunos : ~x.projeto_social}}
       IN  /\ HoldersOf(pagamentos, M) = due
           /\ \A id \in due : NumRows(pagamentos, id, M) = 1
           /\ Range(resp.registros) = BagToSet(RowsOfMonth(pagamentos, M))
           /\ Len(resp.registros) = Cardinality(due)

C2_Witness ==
    /\ IsReconcile(resp)
    /\ \E a \in alunos : /\ a.status = "inativo" /\ ~a.projeto_social
                         /\ NumRows(pagamentos, a.id, resp.referencia) = 1
    /\ \E a \in alunos : /\ a.status = "ativo" /\ ~a.projeto_social
                         /\ NumRows(pagamentos, a.id, resp.referencia) = 1

\* C3: after a run for month M no scholarship student holds a row for M and
\* none is among the returned rows or counted in the summary.
C3_NoScholarshipRow ==
    IsReconcile(resp) =>
       /\ \A a \in alunos : a.projeto_social =>
             /\ NumRows(pagamentos, a.id, resp.referencia) = 0
             /\ \A r \in Range(resp.registros) : r.aluno_id # a.id
       /\ resp.resumo.pagos + resp.resumo.pendentes
             = Cardinality({a \in alunos : ~a.projeto_social})

\* The run found, and deleted, a scholarship student's paid row for the month.
C3_Witness ==
    /\ IsReconcile(resp)
    /\ \E a \in alunos :
          /\ a.projeto_social /\ a.id \in resp.log.deleted
          /\ NumRows(pagamentos, a.id, resp.referencia) = 0
    /\ resp.registros # <<>>

C5_NeverCreatedForScholarship ==
    [][\A p \in BagToSet(pagamentos') :
          (\E a \in alunos' : a.id = p.aluno_id /\ a.projeto_social)
          => NumRows(pagamentos', p.aluno_id, p.competencia)
                <= NumRows(pagamentos, p.aluno_id, p.competencia)]_vars

\* C6: a run for month M gives every non-scholarship student's row for M the
\* student's current fee; a row that existed keeps its paid flag and payment
\* date, a row the run created is unpaid and has no payment date.
C6_ValueRefreshed ==
    [][IsReconcile(resp') /\ resp' # resp =>
         \A a \in alunos : ~a.projeto_social =>
            LET M == resp'.referencia
                before == PagamentosDe(pagamentos, a.id, M)
                after == PagamentosDe(pagamentos', a.id, M)
            IN  /\ \A q \in after : q.valor = a.valor_mensalidade
                /\ IF before = {}
                   THEN \A q \in after : ~q.pago /\ q.data_pagamento = NoDate
                   ELSE \A q \in after : \E p \in before :
                           /\ q.pago = p.pago
                           /\ q.data_pagamento = p.data_pagamento]_vars

\* The run gave a row that was already paid another value, and created a row.
C6_Witness ==
    /\ IsReconcile(resp)
    /\ \E r \in Range(resp.registros) :
          /\ r.pago /\ r.data_pagamento # NoDate
          /\ r.aluno_id \in resp.log.revalued
    /\ resp.log.created # {}

\* C7: a payment row has a payment date exactly when it is paid; after an
\* accepted toggle the row is paid and dated today if the status sent was
\* "pago", and unpaid and undated otherwise.
C7_DateIffPaid ==
    /\ \A p \in BagToSet(pagamentos) : (p.data_pagamento # NoDate) <=> p.pago
    /\ IsToggle(resp) =>
          \A p \in PagamentosDe(pagamentos, resp.aluno_id, resp.referencia) :
             IF resp.status = "pago"
             THEN p.pago /\ p.data_pagamento = hoje
             ELSE ~p.pago /\ p.data_pagamento = NoDate

\* A row that was paid has been marked pending again, another is paid.
C7_Witness ==
    /\ IsToggle(resp) /\ resp.status # "pago"
    /\ NumRows(pagamentos, resp.aluno_id, resp.referencia) = 1
    /\ \E p \in BagToSet(pagamentos) : p.pago

\* The sum of the values of the rows of seq, of the paid ones only if asked.
RECURSIVE SumOver(_, _)
SumOver(seq, paidOnly) ==
    IF seq = <<>> THEN 0
    ELSE (IF paidOnly => Head(seq).pago THEN Head(seq).valor ELSE 0)
            + SumOver(Tail(seq), paidOnly)

\* C8: in every summary returned, outstanding = expected - collected,
\* expected is the sum of the returned rows' values, collected the sum over
\* the paid ones, paid + pending is the number of returned rows, and the
\* percentage is 0 when no row is returned.
C8_SummaryArithmetic ==
    IsReconcile(resp) =>
       LET regs == resp.registros
           sum == resp.resumo
       IN  /\ sum.valor_pendente = sum.valor_previsto - sum.valor_pago
           /\ sum.valor_previsto = SumOver(regs, FALSE)
           /\ sum.valor_pago = SumOver(regs, TRUE)
           /\ sum.pagos = Cardinality({i \in 1..Len(regs) : regs[i].pago})
           /\ sum.pagos + sum.pendentes = Len(regs)
           /\ (regs = <<>> => sum.percentual = 0)

C8_Witness ==
    /\ IsReconcile(resp)
    /\ \E r \in Range(resp.registros) : r.pago /\ r.valor > 0
    /\ \E r \in Range(resp.registros) : ~r.pago /\ r.valor > 0
    /\ resp.resumo.valor_pendente > 0
    /\ resp.resumo.valor_pago > 0

-----------------------------------------------------------------------------
(* Properties of the attendance form.                                      *)

IsAttendance(r) == r.route = "presencas" /\ r.outcome = "success"

NumPresencas(aluno_id, data) ==
    BagCardinality(BagOf(presencas, LAMBDA r : r.aluno_id = aluno_id /\ r.data = data))

\* C9: no (student, date) ever has two attendance rows; after a submission
\* for class C and date D every student of C has exactly one row for D, whose
\* present flag says whether the student's id was submitted.
C9_OneRowPerStudent ==
    /\ \A r \in BagToSet(presencas) : NumPresencas(r.aluno_id, r.data) = 1
    /\ IsAttendance(resp) =>
          \A a \in alunos : a.turma_id = resp.turma_id =>
             /\ NumPresencas(a.id, resp.data) = 1
             /\ \A r \in PresencasDe(presencas, a.id, resp.data) :
                   r.presente = (a.id \in resp.presentes_ids)

\* A repeated submission: a student who had a row is now marked absent,
\* another of the class is present.
C9_Witness ==
    /\ IsAttendance(resp)
    /\ \E a \in alunos :
          /\ a.turma_id = resp.turma_id /\ a.id \in resp.updated
          /\ \E r \in PresencasDe(presencas, a.id, resp.data) : ~r.presente
    /\ \E a \in alunos :
          /\ a.turma_id = resp.turma_id
          /\ \E r \in PresencasDe(presencas, a.id, resp.data) : r.presente

-----------------------------------------------------------------------------
(* Properties of user management.                                          *)

IsManageUsers(r) == r.route = "manage_users"

\* C10: a request to delete the account named admin, the requester's own
\* account or the only administrator, or to give the only administrator
\* another role, is refused and leaves the users table as it was.
C10_ProtectedRequestsRefused ==
    [][IsManageUsers(resp') /\ resp' # resp =>
         \A t \in users : t.id = resp'.user_id =>
            LET sole == t.role = "admin" /\ CountAdmins = 1
                protected ==
                   \/ /\ resp'.action = "delete"
                      /\ (t.username = "admin" \/ t.id = resp'.uid \/ sole)
                   \/ /\ resp'.action = "update_role"
                      /\ sole /\ resp'.role # "admin"
            IN  protected => users' = users /\ resp'.outcome # "success"]_vars

\* The only administrator, not the account named admin, asked for another
\* role for itself and was refused.
C10_Witness ==
    /\ IsManageUsers(resp)
    /\ resp.action = "update_role" /\ resp.role = "instrutor"
    /\ resp.outcome = "error"
    /\ \E t \in users :
          /\ t.id = resp.user_id /\ t.id = resp.uid /\ t.username # "admin"
          /\ t.role = "admin" /\ CountAdmins = 1

-----------------------------------------------------------------------------
(* Properties of user management under interleaved requests.               *)

\* C11: in every reachable state, those reached by role updates and deletions
\* that two administrators send against each other at the same time
\* included, at least one account has role admin.
C11_AlwaysAnAdmin == \E u \in users : u.role = "admin"

-----------------------------------------------------------------------------
(* Properties of the permission gate.                                      *)

Tables == <<users, turmas, alunos, presencas, pagamentos>>

Permissions ==
    {"dashboard", "alunos", "turmas", "presencas", "pagamentos", "config", "users"}

\* The permissions a role holds according to the claim.
RoleHolds(role, p) ==
    CASE role = "admin" -> TRUE
      [] role = "gestor" -> p \in {"dashboard", "alunos", "turmas", "pagamentos"}
      [] role = "instrutor" -> p \in {"dashboard", "presencas"}
      [] OTHER -> FALSE

\* Where the claim sends a request of session uid to a route protected by p.
Expected(uid, p) ==
    IF \A u \in users : u.id # uid THEN "login"
    ELSE IF ~RoleHolds((CHOOSE u \in users : u.id = uid).role, p) THEN "dashboard"
    ELSE "view"

\* The permission that protects each route of the model.
PermissionOf(route) ==
    CASE route \in {"list_alunos", "edit_aluno", "delete_aluno"} -> "alunos"
      [] route \in {"list_turmas", "delete_turma"} -> "turmas"
      [] route = "presencas" -> "presencas"
      [] route = "pagamentos" -> "pagamentos"
      [] route = "manage_users" -> "users"
      [] route = "backup_banco" -> "config"

\* C12: a request to a route protected by p goes to login without a session,
\* to the dashboard with no change of any table when the session's role lacks
\* p, and to the handler otherwise; admin holds every permission, gestor
\* dashboard, alunos, turmas and pagamentos, instrutor dashboard and
\* presencas, and any other role none.
C12_Gate ==
    [][/\ \A role \in ROLE_CHOICES \cup {"dono", ""}, p \in Permissions :
             has_permission([role |-> role], p) <=> RoleHolds(role, p)
       /\ LET sent == Expected(resp'.uid, PermissionOf(resp'.route))
          IN  IF sent = "view"
              THEN resp'.outcome \notin {"login", "dashboard"}
              ELSE resp'.outcome = sent /\ UNCHANGED Tables]_vars

\* A gestor was turned away from the attendance form while a student and a
\* payment row were on record.
C12_Witness ==
    /\ resp.route = "presencas" /\ resp.outcome = "dashboard"
    /\ alunos # {} /\ pagamentos # EmptyBag
    /\ \E u \in users : u.role = "gestor"

-----------------------------------------------------------------------------
(* Properties of interleaved payment and attendance requests.              *)

\* C13: when two requests create the same payment row or the same attendance
\* row at the same time, no table ever holds two rows of one key, and the
\* request that loses is never left with the unique-constraint error
\* unhandled: it is rolled back and redirected with a message.
C13_ConflictsCaught ==
    /\ \A p \in BagToSet(pagamentos) :
          NumRows(pagamentos, p.aluno_id, p.competencia) = 1
    /\ \A r \in BagToSet(presencas) : NumPresencas(r.aluno_id, r.data) = 1
    /\ resp.outcome # "IntegrityError"

-----------------------------------------------------------------------------
(* Properties of a reconciliation run that may fail.                       *)

Raised == {"OperationalError", "IntegrityError", "StaleDataError"}

\* The table holds what the statement asked for.
Done(pags, op) ==
    LET rows == PagamentosDe(pags, op.row.aluno_id, op.row.competencia)
    IN  IF op.op = "delete" THEN rows = {}
        ELSE /\ rows # {}
             /\ \A x \in rows : \A c \in (IF op.op = "insert" THEN DOMAIN op.row
                                             ELSE op.cols) : x[c] = op.row[c]

\* C14: a reconciliation run changes the payments table in one commit at the
\* end of its loop: no pass of the loop changes the table, a commit that
\* passes leaves every creation, overwrite and deletion of the run in it, and
\* a run that raises before or in its commit leaves the table as it was.
C14_AllOrNothing ==
    [][/\ resp' = resp => pagamentos' = pagamentos
       /\ \A r \in inflight \ inflight' :
             (\A q \in inflight' : q.tid # r.tid) =>
                IF resp'.outcome \in Raised
                THEN pagamentos' = pagamentos
                ELSE \A i \in 1..Len(r.ops) : Done(pagamentos', r.ops[i])]_vars

\* A run raised in the middle of its loop, after a pass that had overwritten
\* the value of a row; the row still holds the value it had.
C14_Witness ==
    /\ resp.outcome = "OperationalError" /\ resp.ordem # <<>>
    /\ \E i \in 1..Len(resp.ops) :
          /\ resp.ops[i].op = "update" /\ "valor" \in resp.ops[i].cols
          /\ \E x \in PagamentosDe(pagamentos, resp.ops[i].row.aluno_id,
                                     resp.ops[i].row.competencia) :
                x.valor # resp.ops[i].row.valor

-----------------------------------------------------------------------------
(* Properties of the student forms.                                        *)

\* A phone as the form's message asks for it: at least eight characters,
\* digits, blank, +, -, ( and ) only.
WellFormedPhone(telefone) ==
    /\ Len(telefone) >= 8
    /\ \A i \in 1..Len(telefone) : telefone[i] \in TelefoneChars

\* The amount written in the field is below zero.
NegativeFee(value) ==
    value.kind = "num" /\ value.neg /\ (value.inteiro > 0 \/ value.frac > 0)

\* The age the request stands for: computed from the birth date when one is
\* given, else the one entered (0 when that is no number).
AgeOf(form, today) ==
    IF parse_date(form.data_nascimento) # NoDate
    THEN calcular_idade(form.data_nascimento, today)
    ELSE IF form.idade.kind = "int" THEN form.idade.n ELSE 0

\* The submission is one of those the claim says are rejected.
Invalid(form, today) ==
    \/ form.nome = "" \/ form.responsavel = "" \/ form.telefone = <<>>
    \/ form.turma_id.kind = "none"
    \/ (form.idade.kind = "none" /\ parse_date(form.data_nascimento) = NoDate)
    \/ AgeOf(form, today) \notin MIN_IDADE..MAX_IDADE
    \/ ~WellFormedPhone(form.telefone)
    \/ NegativeFee(form.valor_mensalidade)

\* C15: a create or edit submission with a required field missing, an age
\* outside 4..18, a malformed phone or a negative fee is rejected and leaves
\* the students as they were; every stored student has an age in 4..18 and a
\* fee of at least 0.
C15_InvalidRejected ==
    [][/\ \A form \in FormsValida : Invalid(form, hoje) =>
             /\ list_alunos_POST(1, form)
                   => (alunos' = alunos /\ resp'.outcome = "error")
             /\ \A id \in AlunoIds : edit_aluno_POST(1, id, form)
                   => (alunos' = alunos /\ resp'.outcome \in {"error", "404"})
       /\ \A a \in alunos' :
             a.idade \in MIN_IDADE..MAX_IDADE /\ a.valor_mensalidade >= 0]_vars

\* C16: whatever students were created and edited through the forms, a
\* student marked as projeto social is stored with a fee of exactly 0.
C16_ScholarshipFeeZero ==
    \A a \in alunos : a.projeto_social => a.valor_mensalidade = 0

\* An edit went through and left a scholarship student next to a paying one.
C16_Witness ==
    /\ resp.route = "edit_aluno" /\ resp.outcome = "success"
    /\ \E a, b \in alunos :
          /\ a.projeto_social /\ a.valor_mensalidade = 0
          /\ ~b.projeto_social /\ b.valor_mensalidade > 0

-----------------------------------------------------------------------------
(* Properties of the classes.                                              *)

\* C17: deleting a class removes that class and no other; the students stay
\* the same students, those of the deleted class with no class afterwards
\* and the others with the class they had, nothing else of them changed.
C17_DeleteTurmaKeepsAlunos ==
    [][(resp'.route = "delete_turma" /\ resp'.outcome = "success") =>
         LET t == resp'.turma_id
         IN  /\ turmas' = {c \in turmas : c.id # t}
             /\ \E c \in turmas : c.id = t
             /\ {a.id : a \in alunos'} = {a.id : a \in alunos}
             /\ Cardinality(alunos') = Cardinality(alunos)
             /\ \A a \in alunos : \E b \in alunos' :
                   /\ b.id = a.id
                   /\ b.turma_id = IF a.turma_id = t THEN NULL ELSE a.turma_id
                   /\ [b EXCEPT !.turma_id = a.turma_id] = a]_vars

\* A class was deleted: one student is left with no class and another is
\* still in a class that exists.
C17_Witness ==
    /\ resp.route = "delete_turma" /\ resp.outcome = "success"
    /\ \E a, b \in alunos :
          /\ a.turma_id = NULL
          /\ \E c \in turmas : c.id = b.turma_id

-----------------------------------------------------------------------------
(* Properties of the due date.                                             *)

\* C18: for every month and due day d >= 1 the due date is a day of that
\* month, the d-th when the month has one and its last day otherwise; due day
\* 10 gives the 10th, and due day 31 in a month of 28 days gives the 28th.
C18_DueDate ==
    (resp.route = "calcular_vencimento" /\ resp.outcome = "return") =>
        LET c == resp.competencia
            d == resp.dia_vencimento
            v == resp.vencimento
        IN  /\ v.year = c.year /\ v.month = c.month
            /\ IsValidDate(v)
            /\ v.day <= d
            /\ v.day < d => ~IsValidDate(Date(c.year, c.month, v.day + 1))
            /\ d = DIA_VENCIMENTO_PADRAO => v.day = 10
            /\ (d = 31 /\ c = Date(2023, 2, 1)) => v.day = 28

\* Due day 31 in February 2023 gave the 28th.
C18_Witness ==
    /\ resp.route = "calcular_vencimento" /\ resp.outcome = "return"
    /\ resp.competencia = Date(2023, 2, 1) /\ resp.dia_vencimento = 31
    /\ resp.vencimento = Date(2023, 2, 28)

-----------------------------------------------------------------------------
(* Properties of the financial overview.                                   *)

\* The days from today to the due date of a stored row.
DiasDe(p, today) ==
    DaysBetween(calcular_vencimento(p.competencia, DIA_VENCIMENTO_PADRAO), today)

Listed(lista, p) ==
    \E i \in 1..Len(lista) :
        lista[i].aluno_id = p.aluno_id /\ lista[i].competencia = p.competencia

\* The two lists say of the rows `pags` what the claim says of every row.
Classified(rows, today, semana, atraso) ==
    /\ \A p \in rows :
          /\ (~p.pago /\ 0 <= DiasDe(p, today) /\ DiasDe(p, today) <= 7)
                => (Listed(semana, p) /\ ~Listed(atraso, p))
          /\ (~p.pago /\ DiasDe(p, today) < 0)
                => (Listed(atraso, p) /\ ~Listed(semana, p))
          /\ (p.pago \/ DiasDe(p, today) > 7)
                => (~Listed(semana, p) /\ ~Listed(atraso, p))
    /\ \A i \in 1..Len(semana) : semana[i].dias = DiasDe(semana[i], today)
    /\ \A i \in 1..Len(atraso) : atraso[i].dias_atraso = 0 - DiasDe(atraso[i], today)
    /\ \A i, j \in 1..Len(semana) : i < j => semana[i].dias <= semana[j].dias
    /\ \A i, j \in 1..Len(atraso) :
          i < j => atraso[i].dias_atraso >= atraso[j].dias_atraso

\* C19: the financial overview lists every unpaid row of the payments table
\* that falls due in 0 to 7 days in the upcoming list, ascending by days, and
\* every unpaid row past its due date in the overdue list, descending by days
\* overdue; rows due later and paid rows are in neither, and no row in both.
C19_EveryRowClassified ==
    [][(resp'.route = "financeiro" /\ resp'.outcome = "view" /\ hoje' = hoje) =>
         Classified(BagToSet(pagamentos'), hoje, resp'.vencendo_semana,
                    resp'.vencidas)]_vars

-----------------------------------------------------------------------------
(* Properties of the birthday list.                                        *)

\* The days from `today` to the next day of the calendar that has the month
\* and the day of the birth date; every eighth year has a 29 February.
NextBirthday(data_nascimento, today) ==
    LET on(y) == Date(y, data_nascimento.month, data_nascimento.day)
        years == {y \in today.year..(today.year + 8) :
                    IsValidDate(on(y)) /\ ~DateLt(on(y), today)}
        year == CHOOSE y \in years : \A z \in years : y <= z
    IN  DaysBetween(on(year), today)

\* C20: the birthday list holds only students with a birth date whose next
\* birthday is 0 to 45 days away, ascending by the days left, at most 6 of
\* them, and the 6 with the fewest days left when more qualify; a birthday
\* 40 days away is listed and one 100 days away is not.
C20_BirthdayList ==
    (resp.route = "upcoming_birthdays" /\ resp.outcome # "") =>
        LET rows == resp.alunos
            lista == resp.aniversarios
            away(i) == NextBirthday(rows[i].data_nascimento, hoje)
            qualify == {i \in 1..Len(rows) :
                          rows[i].data_nascimento # NoDate /\ away(i) <= 45}
        IN  /\ resp.outcome = "return"
            /\ \A k \in 1..Len(lista) :
                  /\ lista[k].data # NoDate
                  /\ lista[k].dias_para_aniversario = NextBirthday(lista[k].data, hoje)
                  /\ lista[k].dias_para_aniversario \in 0..45
                  /\ \E i \in qualify : rows[i].data_nascimento = lista[k].data
            /\ \A j, k \in 1..Len(lista) :
                  j < k => lista[j].dias_para_aniversario
                             <= lista[k].dias_para_aniversario
            /\ Len(lista) = min(6, Cardinality(qualify))
            /\ \A i \in qualify :
                  \/ \E k \in 1..Len(lista) : lista[k].data = rows[i].data_nascimento
                  \/ away(i) >= lista[Len(lista)].dias_para_aniversario
            /\ \A i \in 1..Len(rows) :
                  away(i) = 100 =>
                    \A k \in 1..Len(lista) : lista[k].data # rows[i].data_nascimento

\* C21: for every stored birth date, 29 February included, and every day the
\* days to the next birthday are computed without failure and lie in 0..366,
\* and the dashboard is rendered whenever it is opened.
C21_DiasTotal ==
    /\ \A a \in alunos :
          a.data_nascimento # NoDate =>
            LET r == dias_para_aniversario(a.data_nascimento, hoje)
            IN  r.kind = "dias" /\ r.dias \in 0..366
    /\ resp.route = "dashboard" => resp.outcome = "view"

-----------------------------------------------------------------------------
(* Properties of the dashboard.                                            *)

\* C22: the dashboard asks for a session and for no permission, and it
\* reconciles the current month: opened by any user that is logged in, an
\* instrutor included, it leaves every paying student with one row of the
\* month at the student's fee and no scholarship student with a row of the
\* month; opened by nobody it changes nothing.
C22_DashboardReconciles ==
    [][(resp'.route = "dashboard") =>
         LET mes == first_day_of_month(hoje)
         IN  IF is_authenticated(resp'.uid)
             THEN /\ resp'.outcome \in {"view", "500"}
                  /\ \A a \in alunos :
                        LET rows == PagamentosDe(pagamentos', a.id, mes)
                        IN  IF a.projeto_social THEN rows = {}
                            ELSE /\ Cardinality(rows) = 1
                                 /\ \A p \in rows :
                                       /\ pagamentos'[p] = 1
                                       /\ p.valor = parse_decimal(a.valor_mensalidade)
                  /\ BagOf(pagamentos', LAMBDA p : p.competencia # mes)
                       = BagOf(pagamentos, LAMBDA p : p.competencia # mes)
             ELSE resp'.outcome = "login" /\ pagamentos' = pagamentos]_vars

\* The dashboard opened by the instrutor, who holds no 'pagamentos'
\* permission, gave one student's row its new value and deleted the row of
\* a student put on scholarship.
C22_Witness ==
    /\ resp.route = "dashboard" /\ resp.outcome = "view"
    /\ \E u \in users :
          u.id = resp.uid /\ u.role = "instrutor" /\ ~has_permission(u, "pagamentos")
    /\ resp.log.revalued # {} /\ resp.log.deleted # {}

-----------------------------------------------------------------------------
(* Properties of the order of work inside the financial overview.          *)

\* The rows of the table once the month `mes` is reconciled and nothing
\* else: those stored before, less the month's rows of scholarship students,
\* plus a new unpaid row of the month for each paying student without one.
RowsRead(mes) ==
    {p \in BagToSet(pagamentos) :
        ~(p.competencia = mes
          /\ \E a \in alunos : a.id = p.aluno_id /\ a.projeto_social)}
    \cup {NewPagamento(a, mes) :
            a \in {x \in alunos : /\ ~x.projeto_social
                                  /\ PagamentosDe(pagamentos, x.id, mes) = {}}}

\* The unpaid rows of earlier months that the step adds to the table.
CreatedBefore(mes) ==
    {p \in BagToSet(pagamentos') :
        /\ ~p.pago /\ DateLt(p.competencia, mes)
        /\ PagamentosDe(pagamentos, p.aluno_id, p.competencia) = {}}

\* The overdue list names every unpaid row of the table that is past its
\* due date.
OverdueComplete(pags, today, atraso) ==
    \A p \in BagToSet(pags) : (~p.pago /\ DiasDe(p, today) < 0) => Listed(atraso, p)

\* C23: one financial overview builds its two lists from the table as it is
\* after the current month is reconciled and before the five months before
\* it are; the unpaid rows the request creates for those months are not in
\* its lists, and the next overview, with no request in between, lists them:
\* its overdue list differs from the one before.
C23_ListsBeforeHistory ==
    [][(resp'.route = "financeiro" /\ resp'.outcome = "view" /\ hoje' = hoje) =>
         LET mes == first_day_of_month(hoje)
         IN  /\ Classified(RowsRead(mes), hoje, resp'.vencendo_semana, resp'.vencidas)
             /\ \A p \in RowsRead(mes) :
                   (p.competencia = mes /\ ~p.pago /\ DiasDe(p, hoje) \in 0..7)
                     => Listed(resp'.vencendo_semana, p)
             /\ \A p \in CreatedBefore(mes) :
                   /\ DiasDe(p, hoje) < 0
                   /\ ~Listed(resp'.vencidas, p)
                   /\ ~Listed(resp'.vencendo_semana, p)
             /\ (resp.route = "financeiro" /\ resp.outcome = "view"
                  /\ resp.mes_atual = mes)
                   => /\ OverdueComplete(pagamentos', hoje, resp'.vencidas)
                      /\ ~OverdueComplete(pagamentos, hoje, resp.vencidas)
                           => resp'.vencidas # resp.vencidas]_vars

\* An overview has just been answered with an overdue list that lacks
\* unpaid overdue rows the table now holds.
C23_Witness ==
    /\ resp.route = "financeiro" /\ resp.outcome = "view"
    /\ resp.mes_atual = first_day_of_month(hoje)
    /\ ~OverdueComplete(pagamentos, hoje, resp.vencidas)

-----------------------------------------------------------------------------
(* Properties of the class references.                                     *)

\* C24: every student's class reference is null or the id of a class that
\* exists, whatever class id the student forms submitted.
C24_TurmaRefsExist ==
    \A a \in alunos : a.turma_id = NULL \/ \E t \in turmas : t.id = a.turma_id

=========================================================================
